---------------------------- MODULE Spec2Model ----------------------------
(***************************************************************************)
(* A model of PagePilot's retrieval core: chunking, bag-of-words and       *)
(* TF-IDF vectors, the vocabulary builder and the similarity-ranked        *)
(* retrieval of chunks.                                                    *)
(*                                                                         *)
(* Text is a sequence of one-character strings, so that splitting,         *)
(* trimming, lower-casing and substring search are computed character by   *)
(* character as the JavaScript string methods compute them.                *)
(*                                                                         *)
(* Real numbers are fixed-point integers: a similarity is in units of      *)
(* 1/SimScale, a TF or IDF in units of 1/1000, a vector entry of the       *)
(* TF-IDF engine in units of 1/10^7.                                       *)
(***************************************************************************)
EXTENDS Integers, Sequences, FiniteSets, TLC

VARIABLES
    pc,          \* position of the caller: "start", "stored", "retrieved"
    enhancedGenerator, \* whether initializeEnhancedEmbeddings has run (the generator exists)
    content,     \* the text handed to generateEmbeddings / generateEnhancedEmbeddings
    origin,      \* who made the stored embeddings: "generateEmbeddings",
                 \* "generateEnhancedEmbeddings", "caller" or "none"
    genVocab,    \* the vocabulary the stored vectors were indexed by
    stored,      \* the stored embeddings: <<[chunk, embedding, metadata]>>
    question,    \* the query handed to the retriever
    topK,        \* its topK argument
    minSim,      \* its minSimilarity option (0 in the original API)
    boost,       \* its <<useMetadataBoost, languagePreference>> options
    outcome,     \* what the retriever did: [kind, path, vocab, vector, scored, results]
    vpc,              \* position of the user of a VocabularyBuilder
    vocabBuilder,     \* the builder: [maxVocabularySize, minDocumentFrequency, ngramSizes]
    documents,        \* the processed texts handed to buildVocabulary
    builtVocabulary,  \* the Vocabulary it returned
    tpc,              \* position of the user of a TFIDFCalculator
    tfidfCalculator,  \* the calculator: [tfidfWeight, useLogTF, useSmoothedIDF]
    corpus,           \* the Vocabulary handed to the calculator
    idfValue,         \* calculateIDF of the term of the corpus
    weighedText,      \* the processed text handed to the calculator
    weights,          \* the vector it returned
    comparison,       \* what calculateCosineSimilarity did: [kind, a, b, similarity]
    instance,         \* the fields of the EnhancedEmbeddingGenerator instance:
                      \* [vocabularyBuilder, tfidfCalculator]
    configObjects,    \* the config objects the caller holds, by name
    calls,            \* the generateEnhancedEmbeddings calls made so far
    cfgpc,            \* position of the user of the config validation
    userConfig,       \* the partial config handed to the validation
    validation,       \* what validateEmbeddingConfig returned
    merged,           \* what mergeWithDefaults returned
    lpc,              \* position of the caller of generateEmbeddingsWithLimits
    limited,          \* what generateEmbeddingsWithLimits did
    docSources,       \* workspaceState 'docSources': the stored documentation sources
    activeDoc,        \* workspaceState 'activeDoc': {} when undefined, else {source}
    command,          \* the chat command handled last: [kind, name, url, report]
    timed,            \* what findMostRelevantChunksWithTimeout did
    chunked,          \* what a chunkText did: [by, text, sentences, chunks]
    exportedConfigs,  \* the exported config objects of config/defaults.ts, by name
    optimizations,    \* the getOptimalConfigForCorpus calls made so far
    currentConfig,    \* ConfigManager.currentConfig
    storedConfig,     \* workspaceState 'pagepilot.embeddingConfig': {} or {config}
    updated,          \* the updateConfig call made last: [partialConfig, before, returned]
    incremental       \* an incremental build: [step, builder, old, existing, added, vocabulary]

pipeVars == <<pc, enhancedGenerator, content, origin, genVocab, stored, question, topK,
              minSim, boost, outcome>>

vocabVars == <<vpc, vocabBuilder, documents, builtVocabulary>>

tfidfVars == <<tpc, tfidfCalculator, corpus, idfValue, weighedText, weights, comparison>>

genVars == <<instance, configObjects, calls>>

cfgVars == <<cfgpc, userConfig, validation, merged>>

limVars == <<lpc, limited>>

docVars == <<docSources, activeDoc, command>>

timeVars == <<timed>>

chunkVars == <<chunked>>

optVars == <<exportedConfigs, optimizations>>

mgrVars == <<currentConfig, storedConfig, updated>>

updVars == <<incremental>>

vars == <<pipeVars, vocabVars, tfidfVars, genVars, cfgVars, limVars, docVars, timeVars, chunkVars, optVars, mgrVars, updVars>>

\* what each part leaves alone
pipeFrame == <<vocabVars, tfidfVars, genVars, cfgVars, limVars, docVars, timeVars, chunkVars, optVars, mgrVars, updVars>>

vocabFrame == <<pipeVars, tfidfVars, genVars, cfgVars, limVars, docVars, timeVars, chunkVars, optVars, mgrVars, updVars>>

tfidfFrame == <<pipeVars, vocabVars, genVars, cfgVars, limVars, docVars, timeVars, chunkVars, optVars, mgrVars, updVars>>

genFrame == <<pipeVars, vocabVars, tfidfVars, cfgVars, limVars, docVars, timeVars, chunkVars, optVars, mgrVars, updVars>>

cfgFrame == <<pipeVars, vocabVars, tfidfVars, genVars, limVars, docVars, timeVars, chunkVars, optVars, mgrVars, updVars>>

limFrame == <<pipeVars, vocabVars, tfidfVars, genVars, cfgVars, docVars, timeVars, chunkVars, optVars, mgrVars, updVars>>

docFrame == <<pipeVars, vocabVars, tfidfVars, genVars, cfgVars, limVars, timeVars, chunkVars, optVars, mgrVars, updVars>>

timeFrame == <<pipeVars, vocabVars, tfidfVars, genVars, cfgVars, limVars, docVars, chunkVars, optVars, mgrVars, updVars>>

chunkFrame == <<pipeVars, vocabVars, tfidfVars, genVars, cfgVars, limVars, docVars, timeVars, optVars, mgrVars, updVars>>

optFrame == <<pipeVars, vocabVars, tfidfVars, genVars, cfgVars, limVars, docVars, timeVars, chunkVars, mgrVars, updVars>>

mgrFrame == <<pipeVars, vocabVars, tfidfVars, genVars, cfgVars, limVars, docVars, timeVars, chunkVars, optVars, updVars>>

updFrame == <<pipeVars, vocabVars, tfidfVars, genVars, cfgVars, limVars, docVars, timeVars, chunkVars, optVars, mgrVars>>

---------------------------------------------------------------------------
(* Bounds of the model.                                                    *)

MaxContentLen == 3
MaxStored == 2
MaxTopK == 2
MaxNgrams == 2
MaxDocuments == 2
MaxTerms == 3
MaxTotalDocuments == 10

---------------------------------------------------------------------------
(* Strings as sequences of characters.                                     *)

Whitespace == {" "}

Terminators == {".", "!", "?"}

UpperChars == <<"A", "B", "C", "D", "E", "F", "G", "H", "I", "J", "K", "L", "M",
               "N", "O", "P", "Q", "R", "S", "T", "U", "V", "W", "X", "Y", "Z">>

LowerChars == <<"a", "b", "c", "d", "e", "f", "g", "h", "i", "j", "k", "l", "m",
               "n", "o", "p", "q", "r", "s", "t", "u", "v", "w", "x", "y", "z">>

ToLowerChar(c) ==
    IF \E i \in 1..Len(UpperChars) : UpperChars[i] = c
    THEN LowerChars[CHOOSE i \in 1..Len(UpperChars) : UpperChars[i] = c]
    ELSE c

\* String.prototype.toLowerCase
ToLowerCase(s) == [i \in 1..Len(s) |-> ToLowerChar(s[i])]

\* the k-th smallest element of a finite set of integers
KthSmallest(S, k) == CHOOSE x \in S : Cardinality({y \in S : y < x}) = k - 1

\* String.prototype.split with a one-character class: every separator
\* character ends a piece, so n separators give n + 1 pieces (some empty).
SplitOn(s, Seps) ==
    LET idx == {i \in 1..Len(s) : s[i] \in Seps}
        n == Cardinality(idx)
        lo(k) == IF k = 1 THEN 1 ELSE KthSmallest(idx, k - 1) + 1
        hi(k) == IF k = n + 1 THEN Len(s) ELSE KthSmallest(idx, k) - 1
    IN  <<>> \o [k \in 1..(n + 1) |-> SubSeq(s, lo(k), hi(k))]

\* String.prototype.split(/\s+/): the maximal runs of non-whitespace, with an
\* empty piece in front when the text starts with whitespace and one at the
\* end when it ends with whitespace; the empty text gives one empty piece.
SplitWhitespace(s) ==
    LET starts == {i \in 1..Len(s) :
                      s[i] \notin Whitespace /\ (i = 1 \/ s[i - 1] \in Whitespace)}
        ends == {i \in 1..Len(s) :
                      s[i] \notin Whitespace /\ (i = Len(s) \/ s[i + 1] \in Whitespace)}
        n == Cardinality(starts)
        runs == <<>> \o [k \in 1..n |-> SubSeq(s, KthSmallest(starts, k), KthSmallest(ends, k))]
    IN  IF Len(s) = 0 THEN << <<>> >>
        ELSE (IF s[1] \in Whitespace THEN << <<>> >> ELSE <<>>)
             \o runs
             \o (IF s[Len(s)] \in Whitespace THEN << <<>> >> ELSE <<>>)

\* String.prototype.trim
Trim(s) ==
    LET keep == {i \in 1..Len(s) : s[i] \notin Whitespace}
    IN  IF keep = {} THEN <<>>
        ELSE SubSeq(s, KthSmallest(keep, 1), KthSmallest(keep, Cardinality(keep)))

\* String.prototype.includes
Includes(s, t) ==
    \E i \in 1..(Len(s) - Len(t) + 1) : SubSeq(s, i, i + Len(t) - 1) = t

RECURSIVE Join(_, _)
\* Array.prototype.join
Join(pieces, sep) ==
    IF Len(pieces) = 0 THEN <<>>
    ELSE IF Len(pieces) = 1 THEN pieces[1]
    ELSE pieces[1] \o sep \o Join(Tail(pieces), sep)

\* Array.prototype.indexOf, 1-based; 0 when absent
IndexOf(list, x) ==
    IF \E i \in 1..Len(list) : list[i] = x
    THEN CHOOSE i \in 1..Len(list) : list[i] = x /\ \A j \in 1..(i - 1) : list[j] # x
    ELSE 0

\* Array.from(new Set(list)): the elements in first-seen order
Dedup(list) ==
    LET first == {i \in 1..Len(list) : \A j \in 1..(i - 1) : list[j] # list[i]}
    IN  <<>> \o [k \in 1..Cardinality(first) |-> list[KthSmallest(first, k)]]

\* Array.prototype.filter, given the set of indices that pass the test
FilterIdx(list, keep) ==
    LET idx == {i \in 1..Len(list) : i \in keep}
    IN  <<>> \o [k \in 1..Cardinality(idx) |-> list[KthSmallest(idx, k)]]

\* Array.prototype.slice(0, n) for n >= 0
Take(list, n) == SubSeq(list, 1, IF n < Len(list) THEN n ELSE Len(list))

Range(f) == {f[i] : i \in DOMAIN f}

---------------------------------------------------------------------------
(* Fixed-point arithmetic.                                                 *)

SimScale == 1000

Abs(x) == IF x < 0 THEN -x ELSE x

\* division truncating toward zero
Quot(x, k) == IF x >= 0 THEN x \div k ELSE -((-x) \div k)

RECURSIVE ISqrtLoop(_, _, _)
ISqrtLoop(lo, hi, x) ==
    IF lo >= hi THEN lo
    ELSE LET mid == (lo + hi + 1) \div 2
         IN  IF mid * mid <= x THEN ISqrtLoop(mid, hi, x)
             ELSE ISqrtLoop(lo, mid - 1, x)

\* floor of the square root
ISqrt(x) == ISqrtLoop(0, IF x < 46340 THEN x ELSE 46340, x)

RECURSIVE SumSeq(_)
SumSeq(v) == IF Len(v) = 0 THEN 0 ELSE v[1] + SumSeq(Tail(v))

MaxAbs(v) ==
    IF Len(v) = 0 THEN 0
    ELSE CHOOSE m \in {Abs(v[i]) : i \in 1..Len(v)} :
            \A i \in 1..Len(v) : Abs(v[i]) <= m

\* A vector rescaled so that its largest entry is at most 40: the cosine does
\* not depend on a vector's length, and the products below stay in range.
Rescaled(v) ==
    LET k == (MaxAbs(v) + 39) \div 40
    IN  IF k <= 1 THEN v ELSE [i \in 1..Len(v) |-> Quot(v[i], k)]

IsZeroVector(v) == \A i \in 1..Len(v) : v[i] = 0

\* cosineSimilarity of the fast-cosine-similarity package: the pair is
\* rejected (an exception) when the lengths differ or a vector has zero
\* magnitude; otherwise dot(a,b) / (|a| |b|), here in units of 1/SimScale.
CosineDefined(a, b) == Len(a) = Len(b) /\ ~IsZeroVector(a) /\ ~IsZeroVector(b)

\* dot(x, y) / (|x| |y|), in units of 1/SimScale
CosineOf(x, y) ==
    Quot(Quot(SumSeq([i \in 1..Len(x) |-> x[i] * y[i]]) * 10000,
              ISqrt(10000 * SumSeq([i \in 1..Len(x) |-> x[i] * x[i]])))
         * SimScale,
         ISqrt(10000 * SumSeq([i \in 1..Len(y) |-> y[i] * y[i]])))

cosineSimilarity(a, b) == CosineOf(Rescaled(a), Rescaled(b))

---------------------------------------------------------------------------
(* The original API: embeddings.ts, chunkText .. findMostRelevantChunks.   *)

MAX_CHUNK_SIZE == 512

RECURSIVE ChunkLoop(_, _, _, _)
ChunkLoop(sentences, i, chunks, currentChunk) ==
    IF i > Len(sentences)
    THEN IF Len(currentChunk) > 0 THEN Append(chunks, currentChunk) ELSE chunks
    ELSE IF Len(currentChunk) + Len(sentences[i]) > MAX_CHUNK_SIZE
         THEN ChunkLoop(sentences, i + 1, Append(chunks, currentChunk), sentences[i])
         ELSE ChunkLoop(sentences, i + 1, chunks, currentChunk \o sentences[i])

chunkText(text) == ChunkLoop(SplitOn(text, Terminators), 1, <<>>, <<>>)

\* the count of every vocabulary word among the words of the text
CountWords(words, vocab) ==
    <<>> \o [i \in 1..Len(vocab) |->
                Cardinality({k \in 1..Len(words) : IndexOf(vocab, words[k]) = i})]

createBoW(text, vocab) == CountWords(SplitWhitespace(ToLowerCase(text)), vocab)

\* the vocabulary generateEmbeddings builds from the whole content
ContentVocab(text) == Dedup(SplitWhitespace(ToLowerCase(text)))

NoMetadata == [present |-> FALSE, language |-> "en", wordCount |-> 0, ngramCount |-> 0]

\* .some((v) => v > 0)
HasPositiveEntry(embedding) == \E j \in 1..Len(embedding) : embedding[j] > 0

KeepNonZero(all) ==
    FilterIdx(all, {i \in 1..Len(all) : HasPositiveEntry(all[i].embedding)})

\* chunks.map(chunk => ({chunk, embedding: createBoW(chunk, vocab)}))
EmbedOver(chunks, vocab) ==
    <<>> \o [i \in 1..Len(chunks) |->
                [chunk |-> chunks[i], embedding |-> createBoW(chunks[i], vocab),
                 metadata |-> NoMetadata]]

generateEmbeddings(text) == KeepNonZero(EmbedOver(chunkText(text), ContentVocab(text)))

\* the vocabulary the retriever rebuilds from the stored chunks
ChunksVocab(embeddings) ==
    Dedup(SplitWhitespace(ToLowerCase(
        Join([i \in 1..Len(embeddings) |-> embeddings[i].chunk], <<" ">>))))

---------------------------------------------------------------------------
(* text-processor.ts: TextProcessor.                                       *)

EnStopwords == {
    <<"a">>, <<"a", "n">>, <<"a", "n", "d">>, <<"a", "r", "e">>,
    <<"a", "s">>, <<"a", "t">>, <<"b", "e">>, <<"b", "y">>,
    <<"f", "o", "r">>, <<"f", "r", "o", "m">>, <<"h", "a", "s">>,
    <<"h", "e">>, <<"i", "n">>, <<"i", "s">>, <<"i", "t">>, <<"o", "f">>,
    <<"o", "n">>, <<"t", "h", "a", "t">>, <<"t", "h", "e">>, <<"t", "o">>,
    <<"w", "a", "s">>, <<"w", "i", "t", "h">>, <<"t", "h", "e", "y">>,
    <<"h", "a", "v", "e">>, <<"h", "a", "d">>, <<"s", "h", "e">>,
    <<"w", "e">>, <<"y", "o", "u">>, <<"b", "e", "e", "n">>,
    <<"w", "e", "r", "e">> }

PtStopwords == {
    <<"a">>, <<"a", "o">>, <<"a", "o", "s">>, <<"a", "s">>, <<"d", "a">>,
    <<"d", "a", "s">>, <<"d", "e">>, <<"d", "o">>, <<"d", "o", "s">>,
    <<"e">>, <<"e", "m">>, <<"o">>, <<"o", "s">>, <<"p", "a", "r", "a">>,
    <<"p", "o", "r">>, <<"q", "u", "e">>, <<"s", "e">>, <<"u", "m">>,
    <<"u", "m", "a">> }

STOPWORDS(language) == IF language = "pt" THEN PtStopwords ELSE EnStopwords

EnIndicators == {
    <<"t", "h", "e">>, <<"a", "n", "d">>, <<"i", "s">>, <<"i", "n">>,
    <<"t", "o">>, <<"o", "f">>, <<"a">>, <<"t", "h", "a", "t">>,
    <<"i", "t">>, <<"w", "i", "t", "h">> }

PtIndicators == {
    <<"d", "e">>, <<"a">>, <<"o">>, <<"q", "u", "e">>, <<"e">>, <<"d", "o">>,
    <<"d", "a">>, <<"e", "m">>, <<"u", "m">>, <<"p", "a", "r", "a">> }

EnStemmingRules == <<
    [suffix |-> <<"i", "n", "g">>, replacement |-> <<>>, minLength |-> 6],
    [suffix |-> <<"e", "d">>, replacement |-> <<>>, minLength |-> 5],
    [suffix |-> <<"e", "r">>, replacement |-> <<>>, minLength |-> 6],
    [suffix |-> <<"e", "s", "t">>, replacement |-> <<>>, minLength |-> 6],
    [suffix |-> <<"l", "y">>, replacement |-> <<>>, minLength |-> 6],
    [suffix |-> <<"t", "i", "o", "n">>, replacement |-> <<"t", "e">>, minLength |-> 7],
    [suffix |-> <<"s", "i", "o", "n">>, replacement |-> <<>>, minLength |-> 7],
    [suffix |-> <<"n", "e", "s", "s">>, replacement |-> <<>>, minLength |-> 7],
    [suffix |-> <<"m", "e", "n", "t">>, replacement |-> <<>>, minLength |-> 7],
    [suffix |-> <<"a", "b", "l", "e">>, replacement |-> <<>>, minLength |-> 7],
    [suffix |-> <<"i", "b", "l", "e">>, replacement |-> <<>>, minLength |-> 7],
    [suffix |-> <<"i", "v", "e">>, replacement |-> <<>>, minLength |-> 6],
    [suffix |-> <<"o", "u", "s">>, replacement |-> <<>>, minLength |-> 6],
    [suffix |-> <<"f", "u", "l">>, replacement |-> <<>>, minLength |-> 6] >>

PtStemmingRules == <<
    [suffix |-> <<"a", "n", "d", "o">>, replacement |-> <<"a", "r">>, minLength |-> 7],
    [suffix |-> <<"e", "n", "d", "o">>, replacement |-> <<"e", "r">>, minLength |-> 7],
    [suffix |-> <<"i", "n", "d", "o">>, replacement |-> <<"i", "r">>, minLength |-> 7],
    [suffix |-> <<"a", "d", "o">>, replacement |-> <<"a", "r">>, minLength |-> 6],
    [suffix |-> <<"i", "d", "o">>, replacement |-> <<"e", "r">>, minLength |-> 6],
    [suffix |-> <<"ç", "ã", "o">>, replacement |-> <<"r">>, minLength |-> 7],
    [suffix |-> <<"m", "e", "n", "t", "e">>, replacement |-> <<>>, minLength |-> 8],
    [suffix |-> <<"d", "a", "d", "e">>, replacement |-> <<>>, minLength |-> 7],
    [suffix |-> <<"a", "g", "e", "m">>, replacement |-> <<>>, minLength |-> 7],
    [suffix |-> <<"á", "v", "e", "l">>, replacement |-> <<>>, minLength |-> 7],
    [suffix |-> <<"í", "v", "e", "l">>, replacement |-> <<>>, minLength |-> 7] >>

STEMMING_RULES(language) == IF language = "pt" THEN PtStemmingRules ELSE EnStemmingRules

Digits == {"0", "1", "2", "3", "4", "5", "6", "7", "8", "9"}

\* the characters the tokenizer keeps: \w and the accented letters it lists
WordChars ==
    Range(LowerChars) \cup Range(UpperChars) \cup Digits \cup {"_"}
    \cup {"á", "à", "â", "ã", "é", "ê", "í", "ó", "ô", "õ", "ú", "ç"}

\* .replace(/[^\w\s...]/g, " "): every other character becomes a space
Clean(lower) ==
    <<>> \o [i \in 1..Len(lower) |->
                IF lower[i] \in WordChars \cup Whitespace THEN lower[i] ELSE " "]

\* .filter((token) => token.length > 0)
NonEmpty(pieces) == FilterIdx(pieces, {i \in 1..Len(pieces) : Len(pieces[i]) > 0})

tokenize(text) == NonEmpty(SplitWhitespace(Clean(ToLowerCase(text))))

\* the language with more of its indicator words among the words of the text
LanguageOf(wordSet) ==
    IF Cardinality(PtIndicators \cap wordSet) > Cardinality(EnIndicators \cap wordSet)
    THEN "pt" ELSE "en"

detectLanguage(text) == LanguageOf(Range(tokenize(ToLowerCase(text))))

removeStopwords(words, language) ==
    FilterIdx(words, {i \in 1..Len(words) : words[i] \notin STOPWORDS(language)})

EndsWith(word, suffix) ==
    /\ Len(word) >= Len(suffix)
    /\ SubSeq(word, Len(word) - Len(suffix) + 1, Len(word)) = suffix

\* the first rule that applies rewrites the word
StemWord(word, rules) ==
    LET fits == {r \in 1..Len(rules) :
                    Len(word) >= rules[r].minLength /\ EndsWith(word, rules[r].suffix)}
    IN  IF fits = {} THEN word
        ELSE LET rule == rules[KthSmallest(fits, 1)]
             IN  SubSeq(word, 1, Len(word) - Len(rule.suffix)) \o rule.replacement

applyStemming(words, language) ==
    <<>> \o [i \in 1..Len(words) |-> StemWord(words[i], STEMMING_RULES(language))]

\* the n-grams of one size, in left-to-right order
NgramsOfSize(words, n) ==
    IF n = 1 THEN words
    ELSE IF n <= Len(words)
         THEN <<>> \o [i \in 1..(Len(words) - n + 1) |->
                  Join(SubSeq(words, i, i + n - 1), <<" ">>)]
         ELSE <<>>

RECURSIVE generateNgrams(_, _)
generateNgrams(words, ngramSizes) ==
    IF Len(ngramSizes) = 0 THEN <<>>
    ELSE NgramsOfSize(words, ngramSizes[1]) \o generateNgrams(words, Tail(ngramSizes))

\* the options processText uses for the fields the caller leaves out;
\* language "auto" stands for an undefined language
DefaultProcessingOptions ==
    [enableStemming |-> TRUE, enableStopwordRemoval |-> TRUE, language |-> "auto",
     ngramSize |-> <<1, 2, 3>>]

\* the result of processText for the final words
ProcessedWords(words, language, options) ==
    [words |-> words, ngrams |-> generateNgrams(words, options.ngramSize),
     language |-> language]

\* processText from the stemming step on
ProcessKept(kept, language, options) ==
    ProcessedWords(IF options.enableStemming THEN applyStemming(kept, language) ELSE kept,
                   language, options)

\* processText from the stopword step on
ProcessTokens(tokens, language, options) ==
    ProcessKept(IF options.enableStopwordRemoval
                THEN removeStopwords(tokens, language) ELSE tokens,
                language, options)

processText(text, options) ==
    ProcessTokens(tokenize(text),
                  IF options.language = "auto" THEN detectLanguage(text)
                  ELSE options.language,
                  options)

---------------------------------------------------------------------------
(* Ranking: Array.prototype.sort with (a, b) => b.similarity - a.similarity *)
(* (a stable sort since ES2019), then filter and slice.                    *)

\* index x goes after every index that the comparator does not order after it
InsertDesc(perm, keys, x) ==
    LET before == {i \in 1..Len(perm) : keys[perm[i]] >= keys[x]}
        n == Cardinality(before)
    IN  SubSeq(perm, 1, n) \o <<x>> \o SubSeq(perm, n + 1, Len(perm))

RECURSIVE SortLoop(_, _, _)
SortLoop(keys, i, perm) ==
    IF i > Len(keys) THEN perm
    ELSE SortLoop(keys, i + 1, InsertDesc(perm, keys, i))

\* the indices of keys in the order a stable descending sort puts them
SortPermDesc(keys) == SortLoop(keys, 1, <<>>)

\* the list in the order given by a permutation of its indices
Permuted(list, perm) == <<>> \o [k \in 1..Len(list) |-> list[perm[k]]]

SortBySimilarity(list) ==
    Permuted(list, SortPermDesc([i \in 1..Len(list) |-> list[i].similarity]))

\* a filter that also keeps a score equal to the floor
AtOrAboveFloor(s, floor) == s.similarity >= floor

\* (s) => s.similarity > minSimilarity
AboveFloor(s, floor) == s.similarity > floor

\* .filter((s) => s.similarity > minSimilarity)
FilterAbove(sorted, floor) ==
    FilterIdx(sorted, {i \in 1..Len(sorted) : AboveFloor(sorted[i], floor)})

\* sort, filter, slice(0, topK)
Rank(scored, floor, k) == Take(FilterAbove(SortBySimilarity(scored), floor), k)

\* the candidates with their scores; pos is the candidate's place in the input
Scored(qv, embeddings) ==
    <<>> \o [i \in 1..Len(embeddings) |->
        [pos |-> i, chunk |-> embeddings[i].chunk,
         similarity |-> cosineSimilarity(qv, embeddings[i].embedding),
         metadata |-> embeddings[i].metadata]]

AllDefined(qv, embeddings) ==
    \A i \in 1..Len(embeddings) : CosineDefined(qv, embeddings[i].embedding)

\* what a retrieval call did: whether it returned or threw, the path it was on
\* ("legacy", or "enhanced" for the try block and "fallback" for the catch
\* block of the enhanced retriever), the vocabulary and the query vector it
\* used, the scored candidates and the list it returned
Returned(path, vocab, qv, scored, results) ==
    [kind |-> "returned", path |-> path, vocab |-> vocab, vector |-> qv,
     scored |-> scored, results |-> results]

\* the call ended with an exception
Threw(path, vocab, qv) ==
    [kind |-> "threw", path |-> path, vocab |-> vocab, vector |-> qv,
     scored |-> <<>>, results |-> <<>>]

\* the scored candidates ranked into the returned list
RankScored(path, vocab, qv, scored, floor, k) ==
    Returned(path, vocab, qv, scored, Rank(scored, floor, k))

\* a retriever without the zero-vector check
SearchUnchecked(path, vocab, qv, embeddings, floor, k) ==
    IF ~AllDefined(qv, embeddings) THEN Threw(path, vocab, qv)
    ELSE RankScored(path, vocab, qv, Scored(qv, embeddings), floor, k)

\* the question as a bag of words over vocab, compared with every stored vector
SearchBoW(path, vocab, qv, embeddings, floor, k) ==
    IF IsZeroVector(qv) THEN Returned(path, vocab, qv, <<>>, <<>>)
    ELSE IF ~AllDefined(qv, embeddings) THEN Threw(path, vocab, qv)
    ELSE RankScored(path, vocab, qv, Scored(qv, embeddings), floor, k)

\* vocab rebuilt from the chunks, then createBoW(question, vocab)
SearchChunkWords(path, q, vocab, embeddings, floor, k) ==
    SearchBoW(path, vocab, createBoW(q, vocab), embeddings, floor, k)

\* findMostRelevantChunks(question, embeddings, topK)
findMostRelevantChunks(q, embeddings, k) ==
    IF Len(embeddings) = 0 THEN Returned("legacy", <<>>, <<>>, <<>>, <<>>)
    ELSE SearchChunkWords("legacy", q, ChunksVocab(embeddings), embeddings, 0, k)

---------------------------------------------------------------------------
(* extensions.ts: VocabularyBuilder.                                       *)

DefaultMaxVocabularySize == 10000

DefaultMinDocumentFrequency == 1

\* the options of a builder constructed without any
NoVocabularyOptions ==
    [present |-> FALSE, maxVocabularySize |-> 0, minDocumentFrequency |-> 0,
     ngramSizes |-> <<>>]

\* new VocabularyBuilder(options): an absent or zero option takes its default
VocabularyBuilder(options) ==
    [maxVocabularySize |->
        IF options.present /\ options.maxVocabularySize # 0
        THEN options.maxVocabularySize ELSE DefaultMaxVocabularySize,
     minDocumentFrequency |->
        IF options.present /\ options.minDocumentFrequency # 0
        THEN options.minDocumentFrequency ELSE DefaultMinDocumentFrequency,
     ngramSizes |->
        IF options.present /\ Len(options.ngramSizes) > 0
        THEN options.ngramSizes ELSE <<1, 2, 3>>]

createEmptyVocabulary ==
    [terms |-> <<>>, termToIndex |-> <<>>, documentFrequency |-> <<>>,
     totalDocuments |-> 0]

\* the n-grams with ngram.trim().length > 0
NonBlank(ngrams) ==
    FilterIdx(ngrams, {i \in 1..Len(ngrams) : Len(Trim(ngrams[i])) > 0})

\* the Set documentTerms of one document
DocumentTerms(processedText) == Dedup(NonBlank(processedText.ngrams))

RECURSIVE AllNgrams(_)
AllNgrams(processedTexts) ==
    IF Len(processedTexts) = 0 THEN <<>>
    ELSE NonBlank(processedTexts[1].ngrams) \o AllNgrams(Tail(processedTexts))

\* a counter that counts every occurrence of the term
CountedOccurrences(term, processedTexts) ==
    SumSeq([d \in 1..Len(processedTexts) |->
               Cardinality({k \in 1..Len(processedTexts[d].ngrams) :
                               processedTexts[d].ngrams[k] = term})])

\* the counter of a term after the loop over the documents
CountedFrequency(term, processedTexts) ==
    SumSeq([d \in 1..Len(processedTexts) |->
               LET terms == DocumentTerms(processedTexts[d])
               IN  Cardinality({k \in 1..Len(terms) : terms[k] = term})])

MeetsMinimum(frequency, builder) == frequency >= builder.minDocumentFrequency

\* the Map documentFrequency after the loop over the documents
DocumentFrequencyOf(termSet, processedTexts) ==
    [t \in Range(termSet) |-> CountedFrequency(t, processedTexts)]

\* Array.from(termSet).filter(term => documentFrequency.get(term) >= min)
FilterTerms(termSet, documentFrequency, builder) ==
    FilterIdx(termSet, {i \in 1..Len(termSet) :
                           MeetsMinimum(documentFrequency[termSet[i]], builder)})

\* the filtered terms left in first-seen order
UnsortedTerms(filteredTerms, documentFrequency) == filteredTerms

\* filteredTerms.sort((a, b) => freqB - freqA)
SortTerms(filteredTerms, documentFrequency) ==
    Permuted(filteredTerms,
             SortPermDesc(<<>> \o [i \in 1..Len(filteredTerms) |->
                              documentFrequency[filteredTerms[i]]]))

\* the Vocabulary object for the final terms
VocabularyOf(finalTerms, documentFrequency, totalDocuments) ==
    [terms |-> finalTerms,
     termToIndex |-> [t \in Range(finalTerms) |-> IndexOf(finalTerms, t) - 1],
     documentFrequency |-> [t \in Range(finalTerms) |-> documentFrequency[t]],
     totalDocuments |-> totalDocuments]

\* filter, sort, slice(0, maxVocabularySize)
SelectTerms(termSet, documentFrequency, builder, totalDocuments) ==
    VocabularyOf(Take(SortTerms(FilterTerms(termSet, documentFrequency, builder),
                                documentFrequency),
                      builder.maxVocabularySize),
                 documentFrequency, totalDocuments)

\* buildVocabulary once termSet is complete
CountTerms(termSet, builder, processedTexts) ==
    SelectTerms(termSet, DocumentFrequencyOf(termSet, processedTexts), builder,
                Len(processedTexts))

buildVocabulary(builder, processedTexts) ==
    IF Len(processedTexts) = 0 THEN createEmptyVocabulary
    ELSE CountTerms(Dedup(AllNgrams(processedTexts)), builder, processedTexts)

---------------------------------------------------------------------------
(* tfidf-calculator.ts: TFIDFCalculator.  TF and IDF are in units of       *)
(* 1/1000, the weight in tenths, a vector entry in units of 1/10^7.        *)

\* 1000 * ln(n), rounded
LnTable == <<0, 693, 1099, 1386, 1609, 1792, 1946, 2079, 2197, 2303,
             2398, 2485, 2565, 2639, 2708, 2773, 2833, 2890, 2944, 2996>>

\* Math.log(p / q)
LnRatio(p, q) == LnTable[p] - LnTable[q]

\* an optional value is the empty set or the set of its value: value ?? default
OrElse(optional, default) ==
    IF optional = {} THEN default ELSE CHOOSE x \in optional : TRUE

\* new TFIDFCalculator(options): an undefined option takes its default
TFIDFCalculator(options) ==
    [tfidfWeight |-> OrElse(options.tfidfWeight, 10),
     useLogTF |-> OrElse(options.useLogTF, TRUE),
     useSmoothedIDF |-> OrElse(options.useSmoothedIDF, TRUE)]

calculateTF(calc, termCount, totalTerms) ==
    IF totalTerms = 0 THEN 0
    ELSE IF calc.useLogTF
         THEN IF termCount > 0 THEN 1000 + LnRatio(termCount, totalTerms) ELSE 0
         ELSE (1000 * termCount) \div totalTerms

Max(a, b) == IF a >= b THEN a ELSE b

Min(a, b) == IF a <= b THEN a ELSE b

SmallCorpus == 10

\* the IDF of a term with the given document frequency
IDFOf(calc, documentFrequency, totalDocuments) ==
    IF documentFrequency = 0 \/ totalDocuments = 0 THEN 1000
    ELSE IF totalDocuments < SmallCorpus
         THEN IF calc.useSmoothedIDF
              THEN LnRatio(totalDocuments + 1, documentFrequency + 1) + 500
              ELSE Max(100, (1000 * (totalDocuments - documentFrequency + 1))
                                \div totalDocuments)
         ELSE IF calc.useSmoothedIDF
              THEN LnRatio(totalDocuments, documentFrequency) + 1000
              ELSE LnRatio(totalDocuments, documentFrequency)

\* vocabulary.documentFrequency.get(term) || 0
FrequencyIn(vocabulary, term) ==
    IF term \in DOMAIN vocabulary.documentFrequency
    THEN vocabulary.documentFrequency[term] ELSE 0

calculateIDF(calc, term, vocabulary) ==
    IDFOf(calc, FrequencyIn(vocabulary, term), vocabulary.totalDocuments)

\* countTerms(ngrams).get(term) || 0
TermCount(ngrams, term) ==
    Cardinality({k \in 1..Len(ngrams) : ngrams[k] = term /\ Len(Trim(ngrams[k])) > 0})

\* a blend that leaves the count out
TfidfOnly(calc, tf, idf, termCount) == calc.tfidfWeight * tf * idf

\* this.tfidfWeight * tfidf + (1 - this.tfidfWeight) * termCount
Blend(calc, tf, idf, termCount) ==
    calc.tfidfWeight * tf * idf + (10 - calc.tfidfWeight) * termCount * 1000000

WeightedEntry(calc, processedText, vocabulary, i) ==
    LET term == vocabulary.terms[i]
        termCount == TermCount(processedText.ngrams, term)
        totalTerms == Len(processedText.ngrams)
    IN  IF termCount > 0
        THEN Blend(calc, calculateTF(calc, termCount, totalTerms),
                   calculateIDF(calc, term, vocabulary), termCount)
        ELSE 0

calculateDocumentTFIDF(calc, processedText, vocabulary) ==
    [i \in 1..Len(vocabulary.terms) |-> WeightedEntry(calc, processedText, vocabulary, i)]

\* called without precomputed tfidfWeights
createWeightedEmbedding(calc, processedText, vocabulary) ==
    [i \in 1..Len(vocabulary.terms) |-> WeightedEntry(calc, processedText, vocabulary, i)]

\* what a comparison did: it returned a similarity or it threw
ComparisonOf(kind, vectorA, vectorB, similarity) ==
    [kind |-> kind, a |-> vectorA, b |-> vectorB, similarity |-> similarity]

\* a comparison that cuts the longer vector to the length of the shorter
TruncatedCosine(vectorA, vectorB) ==
    ComparisonOf("returned", vectorA, vectorB,
              IF IsZeroVector(Take(vectorA, Len(vectorB))) \/ IsZeroVector(Take(vectorB, Len(vectorA)))
              THEN 0
              ELSE CosineOf(Take(vectorA, Len(vectorB)), Take(vectorB, Len(vectorA))))

\* TFIDFCalculator.calculateCosineSimilarity(vectorA, vectorB)
calculateCosineSimilarity(vectorA, vectorB) ==
    IF Len(vectorA) # Len(vectorB) THEN ComparisonOf("threw", vectorA, vectorB, 0)
    ELSE ComparisonOf("returned", vectorA, vectorB,
                   IF IsZeroVector(vectorA) \/ IsZeroVector(vectorB) THEN 0
                   ELSE CosineOf(vectorA, vectorB))

---------------------------------------------------------------------------
(* Configurations.  tfidfWeight is in tenths; an option that is undefined  *)
(* in the code is the empty set (a flag), "auto" (the language) or not     *)
(* present (the vocabulary options).                                       *)

NoTFIDFOptions == [useLogTF |-> {}, useSmoothedIDF |-> {}]

\* config/defaults.ts: what ConfigManager.getConfig returns when nothing is stored
DEFAULT_EMBEDDING_CONFIG ==
    [enableTFIDF |-> TRUE, enableStemming |-> FALSE, enableStopwordRemoval |-> TRUE,
     ngramSizes |-> <<1, 2>>, tfidfWeight |-> 1, language |-> "en",
     vocabularyOptions |->
        [present |-> TRUE, maxVocabularySize |-> 15000, minDocumentFrequency |-> 1,
         ngramSizes |-> <<1, 2>>],
     tfidfOptions |-> [useLogTF |-> {FALSE}, useSmoothedIDF |-> {TRUE}]]

MINIMAL_EMBEDDING_CONFIG ==
    [enableTFIDF |-> FALSE, enableStemming |-> FALSE, enableStopwordRemoval |-> FALSE,
     ngramSizes |-> <<1>>, tfidfWeight |-> 0, language |-> "en",
     vocabularyOptions |->
        [present |-> TRUE, maxVocabularySize |-> 5000, minDocumentFrequency |-> 1,
         ngramSizes |-> <<1>>],
     tfidfOptions |-> [useLogTF |-> {FALSE}, useSmoothedIDF |-> {FALSE}]]

\* embeddings.ts: the configuration used when there is no config manager
getDefaultEmbeddingConfig ==
    [enableTFIDF |-> TRUE, enableStemming |-> TRUE, enableStopwordRemoval |-> TRUE,
     ngramSizes |-> <<1, 2, 3>>, tfidfWeight |-> 7, language |-> "auto",
     vocabularyOptions |-> NoVocabularyOptions,
     tfidfOptions |-> NoTFIDFOptions]

\* EnhancedEmbeddingGenerator.getDefaultConfig
getDefaultConfig ==
    [enableTFIDF |-> TRUE, enableStemming |-> FALSE, enableStopwordRemoval |-> TRUE,
     ngramSizes |-> <<1, 2>>, tfidfWeight |-> 1, language |-> "auto",
     vocabularyOptions |->
        [present |-> TRUE, maxVocabularySize |-> 15000, minDocumentFrequency |-> 1,
         ngramSizes |-> <<1, 2>>],
     tfidfOptions |-> [useLogTF |-> {FALSE}, useSmoothedIDF |-> {TRUE}]]

ProcessingOptionsOf(config) ==
    [enableStemming |-> config.enableStemming,
     enableStopwordRemoval |-> config.enableStopwordRemoval,
     language |-> config.language, ngramSize |-> config.ngramSizes]

\* new TFIDFCalculator({...config.tfidfOptions, tfidfWeight: config.tfidfWeight})
CalculatorOf(config) ==
    TFIDFCalculator([tfidfWeight |-> {config.tfidfWeight},
                     useLogTF |-> config.tfidfOptions.useLogTF,
                     useSmoothedIDF |-> config.tfidfOptions.useSmoothedIDF])

---------------------------------------------------------------------------
(* EnhancedEmbeddingGenerator.                                             *)

RECURSIVE EnhancedChunkLoop(_, _, _, _)
EnhancedChunkLoop(sentences, i, chunks, currentChunk) ==
    LET flushed == IF Len(Trim(currentChunk)) > 0
                   THEN Append(chunks, Trim(currentChunk)) ELSE chunks
    IN  IF i > Len(sentences) THEN flushed
        ELSE IF Len(currentChunk) + Len(sentences[i]) > MAX_CHUNK_SIZE
             THEN EnhancedChunkLoop(sentences, i + 1, flushed, sentences[i])
             ELSE EnhancedChunkLoop(sentences, i + 1, chunks, currentChunk \o sentences[i])

\* EnhancedEmbeddingGenerator.chunkText
enhancedChunkText(text) ==
    NonEmpty(EnhancedChunkLoop(SplitOn(text, Terminators), 1, <<>>, <<>>))

createSimpleBoW(processedText, vocabulary) ==
    [i \in 1..Len(vocabulary.terms) |->
        TermCount(processedText.ngrams, vocabulary.terms[i])]

shouldOptimizeConfig(config) ==
    /\ config.tfidfWeight = getDefaultConfig.tfidfWeight
    /\ config.ngramSizes = getDefaultConfig.ngramSizes

\* the grave accent, which a string of this notation cannot hold
Backtick == "backtick"

HasCodeBlocks(chunks) ==
    \E i \in 1..Len(chunks) :
        \/ Includes(chunks[i], <<Backtick, Backtick, Backtick>>)
        \/ Includes(chunks[i], <<"f", "u", "n", "c", "t", "i", "o", "n">>)
        \/ Includes(chunks[i], <<"c", "o", "n", "s", "t", " ">>)
        \/ Includes(chunks[i], <<"i", "m", "p", "o", "r", "t", " ">>)

HasTechnicalTerms(chunks) ==
    \E i \in 1..Len(chunks) :
        \/ \E k \in 1..(Len(chunks[i]) - 1) :
              chunks[i][k] \in Range(LowerChars) /\ chunks[i][k + 1] \in Range(UpperChars)
        \/ Includes(chunks[i], <<"_">>)
        \/ Includes(chunks[i], <<".">>)

\* the n-gram sizes optimizeConfigForContent settles on
OptimizedSizes(ngramSizes, long, short) ==
    IF long
    THEN IF \E k \in 1..Len(ngramSizes) : ngramSizes[k] = 3
         THEN ngramSizes ELSE Append(ngramSizes, 3)
    ELSE IF short
    THEN FilterIdx(ngramSizes, {k \in 1..Len(ngramSizes) : ngramSizes[k] <= 2})
    ELSE ngramSizes

\* the nested vocabularyOptions object, which the copy shares with the base
OptimizedOptions(options, baseSizes, sizes, technical, long, short) ==
    IF ~options.present THEN options
    ELSE [options EXCEPT
            !.maxVocabularySize = IF technical THEN Max(@, 15000) ELSE @,
            !.ngramSizes = IF (long /\ sizes # baseSizes) \/ (~long /\ short)
                           THEN sizes ELSE @]

\* optimizeConfigForContent once the content is classified
OptimizeFor(baseConfig, fewChunks, technical, long, short) ==
    [baseConfig EXCEPT
        !.tfidfWeight = IF fewChunks THEN Min(@, 2) ELSE @,
        !.enableStemming = IF technical THEN FALSE ELSE @,
        !.ngramSizes = OptimizedSizes(baseConfig.ngramSizes, long, short),
        !.vocabularyOptions =
            OptimizedOptions(@, baseConfig.ngramSizes,
                             OptimizedSizes(baseConfig.ngramSizes, long, short),
                             technical, long, short)]

\* avgChunkLength > 1000 and avgChunkLength < 200
ClassifyLength(baseConfig, fewChunks, technical, totalLength, count) ==
    OptimizeFor(baseConfig, fewChunks, technical, totalLength > 1000 * count,
                totalLength < 200 * count)

\* optimizeConfigForContent: the configuration it returns
optimizeConfigForContent(chunks, baseConfig) ==
    ClassifyLength(baseConfig, Len(chunks) <= 3,
                   HasCodeBlocks(chunks) \/ HasTechnicalTerms(chunks),
                   SumSeq([i \in 1..Len(chunks) |-> Len(chunks[i])]), Len(chunks))

\* the vector of one processed text over the vocabulary
EmbeddingOf(processedText, vocabulary, config) ==
    IF config.enableTFIDF /\ Len(vocabulary.terms) > 0
    THEN createWeightedEmbedding(CalculatorOf(config), processedText, vocabulary)
    ELSE createSimpleBoW(processedText, vocabulary)

\* the record pushed for one chunk
EmbeddedChunk(chunk, processedText, vocabulary, config) ==
    [chunk |-> chunk,
     embedding |-> EmbeddingOf(processedText, vocabulary, config),
     metadata |-> [present |-> TRUE, language |-> processedText.language,
                   wordCount |-> Len(processedText.words),
                   ngramCount |-> Len(processedText.ngrams)]]

\* the loop over the chunks; the vocabulary is kept beside the embeddings
EmbedProcessed(chunks, processedTexts, vocabulary, config) ==
    [embeddings |->
        KeepNonZero(<<>> \o [i \in 1..Len(chunks) |->
                        EmbeddedChunk(chunks[i], processedTexts[i], vocabulary, config)]),
     vocabulary |-> vocabulary]

\* the vocabulary comes from the optimized config, the calculator from config
EmbedTexts(chunks, processedTexts, optimizedConfig, config) ==
    EmbedProcessed(chunks, processedTexts,
                   buildVocabulary(VocabularyBuilder(optimizedConfig.vocabularyOptions),
                                   processedTexts),
                   config)

ProcessAll(chunks, options) ==
    <<>> \o [i \in 1..Len(chunks) |-> processText(chunks[i], options)]

EmbedChunks(chunks, optimizedConfig, config) ==
    EmbedTexts(chunks, ProcessAll(chunks, ProcessingOptionsOf(optimizedConfig)),
               optimizedConfig, config)

GenerateFrom(chunks, config) ==
    IF Len(chunks) = 0
    THEN [embeddings |-> <<>>, vocabulary |-> createEmptyVocabulary]
    ELSE EmbedChunks(chunks,
                     IF shouldOptimizeConfig(config)
                     THEN optimizeConfigForContent(chunks, config) ELSE config,
                     config)

\* generateEnhancedEmbeddings with the vocabulary it built
Generation(text, config) == GenerateFrom(enhancedChunkText(text), config)

\* EnhancedEmbeddingGenerator.generateEnhancedEmbeddings(content, config)
generateEnhancedEmbeddings(text, config) == Generation(text, config).embeddings

\* EnhancedEmbeddingGenerator.generateSingleEmbedding(text, vocabulary, config)
generateSingleEmbedding(text, vocabulary, config) ==
    EmbeddingOf(processText(text, ProcessingOptionsOf(config)), vocabulary, config)

---------------------------------------------------------------------------
(* The enhanced retriever: embeddings.ts, findMostRelevantChunksEnhanced.  *)

\* embeddings.map((e) => e.chunk).join(" ")
AllText(embeddings) ==
    Join([i \in 1..Len(embeddings) |-> embeddings[i].chunk], <<" ">>)

\* the docCount of a term: the chunks whose lower-cased text includes it
ChunkCount(term, embeddings) ==
    Cardinality({i \in 1..Len(embeddings) :
                    Includes(ToLowerCase(embeddings[i].chunk), term)})

\* the Vocabulary object for the unique terms
VocabularyFromTerms(uniqueTerms, embeddings) ==
    [terms |-> uniqueTerms,
     termToIndex |-> [t \in Range(uniqueTerms) |-> IndexOf(uniqueTerms, t) - 1],
     documentFrequency |-> [t \in Range(uniqueTerms) |-> ChunkCount(t, embeddings)],
     totalDocuments |-> Len(embeddings)]

buildVocabularyFromEmbeddings(embeddings, enhanced) ==
    VocabularyFromTerms(
        Dedup(NonBlank(IF enhanced
                       THEN processText(AllText(embeddings), DefaultProcessingOptions).ngrams
                       ELSE SplitWhitespace(ToLowerCase(AllText(embeddings))))),
        embeddings)

OptimalWordCount == 50

\* 0.9 + wordCountRatio * 0.2, in thousandths
WordCountBoost(metadata) ==
    900 + Min((1000 * metadata.wordCount) \div OptimalWordCount, 1000) \div 5

\* 1.0 + (ngramRichness - 1) * 0.05, in thousandths; a ratio over zero words
\* is infinite and capped at 2
NgramBoost(metadata) ==
    1000 + ((IF metadata.wordCount = 0 THEN 2000
             ELSE Min((1000 * metadata.ngramCount) \div metadata.wordCount, 2000))
            - 1000) \div 20

\* the n-gram boost and the cap at 1.0
Enriched(counted, metadata) ==
    Min(IF metadata.ngramCount > metadata.wordCount
        THEN Quot(counted * NgramBoost(metadata), 1000) ELSE counted,
        SimScale)

\* the boost for a word count near the optimum
Counted(preferred, metadata) ==
    Enriched(Quot(preferred * WordCountBoost(metadata), 1000), metadata)

\* a boost that adds a bonus for the preferred language instead of scaling
AddedBoost(similarity, metadata, languagePreference) ==
    Counted(IF languagePreference # "none" /\ metadata.language = languagePreference
            THEN similarity + SimScale \div 10 ELSE similarity,
            metadata)

\* applyMetadataBoost; languagePreference "none" stands for an undefined one
applyMetadataBoost(similarity, metadata, languagePreference) ==
    Counted(IF languagePreference # "none" /\ metadata.language = languagePreference
            THEN Quot(similarity * 11, 10) ELSE similarity,
            metadata)

\* the score of one candidate after the optional boost
Boosted(similarity, metadata, useMetadataBoost, languagePreference) ==
    IF useMetadataBoost /\ metadata.present
    THEN applyMetadataBoost(similarity, metadata, languagePreference)
    ELSE similarity

\* the candidates with their final scores
ScoredEnhanced(qv, embeddings, useMetadataBoost, languagePreference) ==
    <<>> \o [i \in 1..Len(embeddings) |->
        [pos |-> i, chunk |-> embeddings[i].chunk,
         similarity |-> Boosted(cosineSimilarity(qv, embeddings[i].embedding),
                                embeddings[i].metadata, useMetadataBoost,
                                languagePreference),
         metadata |-> embeddings[i].metadata]]

\* the catch block: the question as a bag of words over the words of the chunks
EnhancedFallback(q, embeddings, k, floor) ==
    SearchChunkWords("fallback", q, ChunksVocab(embeddings), embeddings, floor, k)

\* the try block from the zero check on
SearchEnhanced(q, vocab, qv, embeddings, k, floor, useMetadataBoost, languagePreference) ==
    IF IsZeroVector(qv) THEN Returned("enhanced", vocab, qv, <<>>, <<>>)
    ELSE IF ~AllDefined(qv, embeddings) THEN EnhancedFallback(q, embeddings, k, floor)
    ELSE RankScored("enhanced", vocab, qv,
                    ScoredEnhanced(qv, embeddings, useMetadataBoost, languagePreference),
                    floor, k)

\* the simple-BoW branch of the question embedding
SearchWithWords(q, vocab, embeddings, k, floor, useMetadataBoost, languagePreference) ==
    SearchEnhanced(q, vocab, createBoW(q, vocab), embeddings, k, floor,
                   useMetadataBoost, languagePreference)

\* the try block once the vocabulary is built
SearchWithVocabulary(q, vocabulary, embeddings, k, floor, useMetadataBoost, languagePreference, enhanced, config) ==
    IF enhanced /\ Len(vocabulary.terms) > 0
    THEN SearchEnhanced(q, vocabulary.terms,
                        generateSingleEmbedding(q, vocabulary, config),
                        embeddings, k, floor, useMetadataBoost, languagePreference)
    ELSE SearchWithWords(q, ChunksVocab(embeddings), embeddings, k, floor,
                         useMetadataBoost, languagePreference)

\* findMostRelevantChunksEnhanced(question, embeddings, options); config is
\* what configManager.getConfig() returns, enhanced whether the generator exists
findMostRelevantChunksEnhanced(q, embeddings, k, floor, useMetadataBoost, languagePreference, enhanced, config) ==
    IF Len(embeddings) = 0 THEN Returned("enhanced", <<>>, <<>>, <<>>, <<>>)
    ELSE SearchWithVocabulary(q, buildVocabularyFromEmbeddings(embeddings, enhanced),
                              embeddings, k, floor, useMetadataBoost,
                              languagePreference, enhanced, config)

---------------------------------------------------------------------------
(* Inputs.                                                                 *)

ContentAlphabet == {"a", "b", " ", "."}

StringsUpTo(A, n) == UNION {[1..m -> A] : m \in 0..n}

SeqsUpTo(S, n) == UNION {[1..m -> S] : m \in 0..n}

\* the content of the test "should return top chunks with TF-IDF"
CatDogBird == <<"T", "h", "e", " ", "c", "a", "t", " ", "s", "a", "t", " ", "o", "n", " ", "t", "h", "e", " ", "m", "a", "t", ".", " ", "T", "h", "e", " ", "d", "o", "g", " ", "a", "t", "e", " ", "t", "h", "e", " ", "f", "o", "o", "d", ".", " ", "T", "h", "e", " ", "b", "i", "r", "d", " ", "f", "l", "e", "w", " ", "a", "w", "a", "y", ".">>

\* the content and the question of the test "should handle stemming"
Correndo == <<"E", "u", " ", "e", "s", "t", "o", "u", " ", "c", "o", "r", "r", "e", "n", "d", "o", " ", "n", "o", " ", "p", "a", "r", "q", "u", "e", ".", " ", "E", "l", "e", " ", "c", "o", "r", "r", "e", " ", "t", "o", "d", "o", "s", " ", "o", "s", " ", "d", "i", "a", "s", ".">>

Correr == <<"c", "o", "r", "r", "e", "r">>

Contents == StringsUpTo(ContentAlphabet, MaxContentLen) \cup {CatDogBird, Correndo}

Dog == <<"d", "o", "g">>

Questions == {<<>>, <<"a">>, <<"b">>, <<"B", " ", "a">>, <<" ", "b">>, <<"c">>, Dog, Correr}

Meta(language, wordCount, ngramCount) ==
    [present |-> TRUE, language |-> language, wordCount |-> wordCount,
     ngramCount |-> ngramCount]

\* embeddings a caller stores itself: the last is the one of the test
\* "should not throw ZeroVectorError"
CandidatePool ==
    { [chunk |-> <<"b">>, embedding |-> <<0, 1>>, metadata |-> Meta("en", 1, 1)],
      [chunk |-> <<"a", " ", "b">>, embedding |-> <<1, 1>>, metadata |-> Meta("pt", 2, 3)],
      [chunk |-> <<"b", " ", "a">>, embedding |-> <<1, 1>>, metadata |-> NoMetadata],
      [chunk |-> <<"b", " ", "b">>, embedding |-> <<0, 2>>, metadata |-> Meta("en", 2, 3)],
      [chunk |-> <<"a", " ", "b", " ", "c">>, embedding |-> <<1, 1, 1>>,
       metadata |-> NoMetadata] }

\* the configurations generateEnhancedEmbeddings is called with
GenerationConfigs == {DEFAULT_EMBEDDING_CONFIG, MINIMAL_EMBEDDING_CONFIG}

\* minSimilarity, in units of 1/SimScale
Floors == {-SimScale, 0, SimScale \div 2}

\* (useMetadataBoost, languagePreference)
BoostChoices == {<<FALSE, "none">>, <<TRUE, "en">>}

MaxDimension == 3

\* the vectors handed to calculateCosineSimilarity
ComparedVectors == SeqsUpTo(0..1, MaxDimension)

NoOutcome == [kind |-> "none", path |-> "none", vocab |-> <<>>, vector |-> <<>>,
              scored |-> <<>>, results |-> <<>>]

---------------------------------------------------------------------------
(* The pipeline as a state machine.                                        *)

NoComparison == [kind |-> "none", a |-> <<>>, b |-> <<>>, similarity |-> 0]

\* the builder and the calculator are not in use
NoBuilder ==
    /\ vpc = "off"
    /\ vocabBuilder = VocabularyBuilder(NoVocabularyOptions)
    /\ documents = <<>>
    /\ builtVocabulary = createEmptyVocabulary

NoCalculator ==
    /\ tpc = "off"
    /\ tfidfCalculator = TFIDFCalculator([tfidfWeight |-> {}, useLogTF |-> {},
                                          useSmoothedIDF |-> {}])
    /\ corpus = createEmptyVocabulary
    /\ idfValue = 0
    /\ weighedText = <<>>
    /\ weights = <<>>
    /\ comparison = NoComparison

NoPipeline ==
    /\ pc = "off"
    /\ enhancedGenerator = FALSE
    /\ content = <<>>
    /\ origin = "none"
    /\ genVocab = <<>>
    /\ stored = <<>>
    /\ question = <<>>
    /\ topK = 0
    /\ minSim = 0
    /\ boost = <<FALSE, "none">>
    /\ outcome = NoOutcome

\* no generator instance, no config validation and no limited generation
NoGenerator ==
    /\ instance = [vocabularyBuilder |-> VocabularyBuilder(NoVocabularyOptions),
                   tfidfCalculator |-> TFIDFCalculator([tfidfWeight |-> {},
                                          useLogTF |-> {}, useSmoothedIDF |-> {}])]
    /\ configObjects = <<>>
    /\ calls = <<>>

NoValidation ==
    /\ cfgpc = "off"
    /\ userConfig = <<>>
    /\ validation = <<>>
    /\ merged = <<>>

NoLimits ==
    /\ lpc = "off"
    /\ limited = <<>>

NoDocs ==
    /\ docSources = <<>>
    /\ activeDoc = {}
    /\ command = <<>>

NoTimed ==
    timed = <<>>

NoChunked ==
    chunked = <<>>

NoOptimizer ==
    /\ exportedConfigs = <<>>
    /\ optimizations = <<>>

NoManager ==
    /\ currentConfig = <<>>
    /\ storedConfig = {}
    /\ updated = <<>>

NoUpdate ==
    /\ incremental = <<>>

Init ==
    /\ pc = "start"
    /\ enhancedGenerator = FALSE
    /\ content = <<>>
    /\ origin = "none"
    /\ genVocab = <<>>
    /\ stored = <<>>
    /\ question = <<>>
    /\ topK = 0
    /\ minSim = 0
    /\ boost = <<FALSE, "none">>
    /\ outcome = NoOutcome
    /\ NoBuilder
    /\ NoCalculator
    /\ NoGenerator
    /\ NoValidation
    /\ NoLimits
    /\ NoDocs
    /\ NoTimed
    /\ NoChunked
    /\ NoOptimizer
    /\ NoManager
    /\ NoUpdate

\* initializeEnhancedEmbeddings(context)
Initialize ==
    /\ pc = "start"
    /\ ~enhancedGenerator
    /\ enhancedGenerator' = TRUE
    /\ UNCHANGED <<pc, content, origin, genVocab, stored, question, topK, minSim, boost,
                   outcome, pipeFrame>>

\* configManager?.getConfig() || getDefaultEmbeddingConfig()
CurrentConfig == IF enhancedGenerator THEN DEFAULT_EMBEDDING_CONFIG ELSE getDefaultEmbeddingConfig

\* embeddings = generateEmbeddings(content)
Generate ==
    /\ pc = "start"
    /\ \E text \in Contents :
          /\ content' = text
          /\ stored' = generateEmbeddings(text)
          /\ genVocab' = ContentVocab(text)
    /\ origin' = "generateEmbeddings"
    /\ pc' = "stored"
    /\ UNCHANGED <<enhancedGenerator, question, topK, minSim, boost, outcome,
                   pipeFrame>>

\* embeddings = generateEnhancedEmbeddings(content, config); without the
\* generator the call throws and nothing is stored
GenerateEnhanced ==
    /\ pc = "start"
    /\ enhancedGenerator
    /\ \E text \in Contents, config \in GenerationConfigs :
          \E generation \in {Generation(text, config)} :
             /\ content' = text
             /\ stored' = generation.embeddings
             /\ genVocab' = generation.vocabulary.terms
    /\ origin' = "generateEnhancedEmbeddings"
    /\ pc' = "stored"
    /\ UNCHANGED <<enhancedGenerator, question, topK, minSim, boost, outcome,
                   pipeFrame>>

\* the caller stores embeddings it made itself
Supply ==
    /\ pc = "start"
    /\ stored' \in SeqsUpTo(CandidatePool, MaxStored) \ {<<>>}
    /\ genVocab' = <<>>
    /\ origin' = "caller"
    /\ pc' = "stored"
    /\ UNCHANGED <<enhancedGenerator, content, question, topK, minSim, boost, outcome,
                   pipeFrame>>

\* findMostRelevantChunks(question, embeddings, topK)
Find ==
    /\ pc = "stored"
    /\ \E q \in Questions, k \in 0..MaxTopK :
          /\ question' = q
          /\ topK' = k
          /\ outcome' = findMostRelevantChunks(q, stored, k)
    /\ minSim' = 0
    /\ boost' = <<FALSE, "none">>
    /\ pc' = "retrieved"
    /\ UNCHANGED <<enhancedGenerator, content, origin, genVocab, stored, pipeFrame>>

\* findMostRelevantChunksEnhanced(question, embeddings,
\*                                {topK, minSimilarity, useMetadataBoost, languagePreference})
FindEnhanced ==
    /\ pc = "stored"
    /\ \E q \in Questions, k \in 0..MaxTopK, floor \in Floors, b \in BoostChoices :
          /\ question' = q
          /\ topK' = k
          /\ minSim' = floor
          /\ boost' = b
          /\ outcome' = findMostRelevantChunksEnhanced(q, stored, k, floor, b[1], b[2],
                                                       enhancedGenerator, CurrentConfig)
    /\ pc' = "retrieved"
    /\ UNCHANGED <<enhancedGenerator, content, origin, genVocab, stored, pipeFrame>>

\* new TFIDFCalculator().calculateCosineSimilarity(vectorA, vectorB), which
\* uses no field of the calculator
CompareVectors ==
    /\ pc = "start"
    /\ \E vectorA \in ComparedVectors, vectorB \in ComparedVectors :
          comparison' = calculateCosineSimilarity(vectorA, vectorB)
    /\ pc' = "compared"
    /\ UNCHANGED <<enhancedGenerator, content, origin, genVocab, stored, question, topK,
                   minSim, boost, outcome, tpc, tfidfCalculator, corpus, idfValue,
                   weighedText, weights, vocabVars, genVars, cfgVars, limVars, docVars, timeVars, chunkVars, optVars, mgrVars, updVars>>

Next ==
    \/ Initialize \/ Generate \/ GenerateEnhanced \/ Supply \/ Find \/ FindEnhanced
    \/ CompareVectors

Spec == Init /\ [][Next]_vars

---------------------------------------------------------------------------
(* Properties of the pipeline.                                             *)

\* the retriever took the generator branch for the question embedding
UsesGenerator ==
    /\ outcome.path # "legacy"
    /\ enhancedGenerator
    /\ Len(buildVocabularyFromEmbeddings(stored, TRUE).terms) > 0

\* the vocabulary the retriever first looks the question up in
FirstVocabulary ==
    IF UsesGenerator THEN buildVocabularyFromEmbeddings(stored, TRUE).terms
    ELSE ChunksVocab(stored)

\* the terms the retriever extracts from the question
QuestionTerms ==
    IF UsesGenerator THEN processText(question, ProcessingOptionsOf(CurrentConfig)).ngrams
    ELSE SplitWhitespace(ToLowerCase(question))

NoSharedTerm == Range(QuestionTerms) \cap Range(FirstVocabulary) = {}

\* C1: a question whose terms share no term with the vocabulary of the stored
\* chunks gets the empty list from findMostRelevantChunks and from
\* findMostRelevantChunksEnhanced, whatever topK and minSimilarity are, and
\* the call does not throw.
C1_NoSharedTermIsEmpty ==
    pc = "retrieved"
    => \/ (outcome.kind = "returned" /\ outcome.results = <<>>)
       \/ ~NoSharedTerm

\* an enhanced retrieval over stored chunks with a question that matches
\* nothing, a negative floor and a positive topK
C1_Witness ==
    /\ pc = "retrieved"
    /\ outcome.path = "enhanced"
    /\ stored # <<>>
    /\ question # <<>>
    /\ NoSharedTerm
    /\ minSim < 0
    /\ topK > 0
    /\ outcome.kind = "returned"
    /\ outcome.results = <<>>

\* the call compared the query vector with stored vectors
Compared == stored # <<>> /\ ~IsZeroVector(outcome.vector)

\* C2: the query vector and the stored vectors it is compared with are over
\* the same vocabulary: the retriever indexes the query by the very term list
\* the generator indexed the chunks by, and the lengths agree.
C2_SameVocabulary ==
    (/\ pc = "retrieved"
     /\ origin \in {"generateEmbeddings", "generateEnhancedEmbeddings"}
     /\ Compared)
    => /\ outcome.vocab = genVocab
       /\ \A i \in 1..Len(stored) : Len(stored[i].embedding) = Len(outcome.vector)

\* a comes before b in the ranking: a higher score, or the same score and an
\* earlier place in the input
Before(a, b) ==
    \/ a.similarity > b.similarity
    \/ (a.similarity = b.similarity /\ a.pos < b.pos)

\* the scored candidates above the floor
Passing == {i \in 1..Len(outcome.scored) : outcome.scored[i].similarity > minSim}

\* C3: the list a retrieval returns is the first topK of the candidates it
\* scored whose final score is strictly greater than minSimilarity, in
\* descending order of score, candidates of equal score in input order.
C3_RankedList ==
    (pc = "retrieved" /\ outcome.kind = "returned")
    => /\ Len(outcome.results) = Min(topK, Cardinality(Passing))
       /\ \A j \in 1..Len(outcome.results) :
             outcome.results[j] \in {outcome.scored[i] : i \in Passing}
       /\ \A j \in 1..(Len(outcome.results) - 1) :
             Before(outcome.results[j], outcome.results[j + 1])
       /\ \A i \in Passing :
             outcome.scored[i] \notin Range(outcome.results)
             => \A j \in 1..Len(outcome.results) :
                   Before(outcome.results[j], outcome.scored[i])

\* an enhanced retrieval in which two candidates tie above the floor and
\* topK = 1 keeps the one that came first in the input
C3_Witness ==
    /\ pc = "retrieved"
    /\ outcome.kind = "returned"
    /\ outcome.path = "enhanced"
    /\ topK = 1
    /\ Len(outcome.scored) = 2
    /\ Passing = {1, 2}
    /\ outcome.scored[1].similarity = outcome.scored[2].similarity
    /\ Len(outcome.results) = 1
    /\ outcome.results[1].pos = 1

\* C4: generateEmbeddings never emits a chunk that is empty or only
\* whitespace, so empty or whitespace-only content gives the empty list.
C4_NoBlankChunk ==
    origin = "generateEmbeddings"
    => \A i \in 1..Len(stored) : Len(Trim(stored[i].chunk)) > 0

\* the chunks of a returned list
ChunksOf(results) == [j \in 1..Len(results) |-> results[j].chunk]

TheDogAteTheFood ==
    <<"T", "h", "e", " ", "d", "o", "g", " ", "a", "t", "e", " ",
      "t", "h", "e", " ", "f", "o", "o", "d">>

\* C5: for the three-sentence content of the test, generateEmbeddings followed
\* by findMostRelevantChunks("dog", embeddings, 1) returns exactly the
\* sentence 'The dog ate the food'.
C5_DogSentence ==
    (/\ pc = "retrieved"
     /\ origin = "generateEmbeddings"
     /\ content = CatDogBird
     /\ outcome.path = "legacy"
     /\ question = Dog
     /\ topK = 1)
    => (outcome.kind = "returned" /\ ChunksOf(outcome.results) = <<TheDogAteTheFood>>)

WellFormed(vocabulary) ==
    /\ \A i, j \in 1..Len(vocabulary.terms) :
          vocabulary.terms[i] = vocabulary.terms[j] => i = j
    /\ DOMAIN vocabulary.termToIndex = Range(vocabulary.terms)
    /\ \A i \in 1..Len(vocabulary.terms) :
          vocabulary.termToIndex[vocabulary.terms[i]] = i - 1
    /\ DOMAIN vocabulary.documentFrequency = Range(vocabulary.terms)
    /\ \A t \in Range(vocabulary.terms) :
          vocabulary.documentFrequency[t] \in 1..vocabulary.totalDocuments

\* C9: the Vocabulary findMostRelevantChunksEnhanced builds from the stored
\* embeddings is well formed: unique terms, termToIndex the position of each
\* term, one document frequency per term, each in 1..totalDocuments.
C9_WellFormedVocabulary ==
    (pc = "retrieved" /\ outcome.path # "legacy" /\ stored # <<>>)
    => WellFormed(buildVocabularyFromEmbeddings(stored, enhancedGenerator))

\* the cosine of the query vector and the stored vector of a scored candidate
RawSimilarity(s) == cosineSimilarity(outcome.vector, stored[s.pos].embedding)

EuEstouCorrendoNoParque == <<"E", "u", " ", "e", "s", "t", "o", "u", " ", "c", "o", "r", "r", "e", "n", "d", "o", " ", "n", "o", " ", "p", "a", "r", "q", "u", "e">>

\* C20: retrieval matches inflected forms of a word: for the content 'Eu
\* estou correndo no parque. Ele corre todos os dias.', generateEmbeddings
\* followed by findMostRelevantChunks('correr', embeddings, 1) returns exactly
\* the sentence 'Eu estou correndo no parque'.
C20_InflectedForm ==
    (/\ pc = "retrieved"
     /\ origin = "generateEmbeddings"
     /\ outcome.path = "legacy"
     /\ content = Correndo
     /\ question = Correr
     /\ topK = 1)
    => /\ outcome.kind = "returned"
       /\ ChunksOf(outcome.results) = <<EuEstouCorrendoNoParque>>

---------------------------------------------------------------------------
(* VocabularyBuilder on its own: a builder is constructed, then            *)
(* buildVocabulary is applied to a list of processed texts.                *)

Api == <<"a", "p", "i">>

X == <<"x">>

Y == <<"y">>

Blank == <<" ">>

\* a ProcessedText with the given n-grams
AsProcessed(ngrams) == [words |-> ngrams, ngrams |-> ngrams, language |-> "en"]

\* the n-gram lists of the documents: short lists of two terms, and two
\* lists with a whitespace-only n-gram
NgramLists == SeqsUpTo({Api, X}, MaxNgrams) \cup {<<Blank>>, <<Api, Blank>>}

DocumentLists == SeqsUpTo({AsProcessed(ngrams) : ngrams \in NgramLists}, MaxDocuments)

\* the options a builder is constructed with; 0 is a value the constructor
\* replaces by its default
VocabularyOptionChoices ==
    {NoVocabularyOptions}
    \cup {[present |-> TRUE, maxVocabularySize |-> size, minDocumentFrequency |-> frequency,
           ngramSizes |-> <<1>>] : size \in {0, 1, 2}, frequency \in {0, 1, 2}}

InitVocab ==
    /\ vpc = "new"
    /\ vocabBuilder = VocabularyBuilder(NoVocabularyOptions)
    /\ documents = <<>>
    /\ builtVocabulary = createEmptyVocabulary
    /\ NoPipeline
    /\ NoCalculator
    /\ NoGenerator
    /\ NoValidation
    /\ NoLimits
    /\ NoDocs
    /\ NoTimed
    /\ NoChunked
    /\ NoOptimizer
    /\ NoManager
    /\ NoUpdate

\* new VocabularyBuilder(options)
NewBuilder ==
    /\ vpc = "new"
    /\ \E options \in VocabularyOptionChoices : vocabBuilder' = VocabularyBuilder(options)
    /\ vpc' = "ready"
    /\ UNCHANGED <<documents, builtVocabulary, vocabFrame>>

\* vocabulary = builder.buildVocabulary(processedTexts)
Build ==
    /\ vpc = "ready"
    /\ \E processedTexts \in DocumentLists :
          /\ documents' = processedTexts
          /\ builtVocabulary' = buildVocabulary(vocabBuilder, processedTexts)
    /\ vpc' = "built"
    /\ UNCHANGED <<vocabBuilder, vocabFrame>>

NextVocab == NewBuilder \/ Build

SpecVocab == InitVocab /\ [][NextVocab]_vars

\* the documents whose n-gram list contains the term
ContainingDocuments(term) ==
    {d \in 1..Len(documents) :
        \E k \in 1..Len(documents[d].ngrams) : documents[d].ngrams[k] = term}

\* C8: buildVocabulary over k documents returns totalDocuments = k and, for
\* each of its terms, a document frequency equal to the number of documents
\* that contain the term (a term repeated in one document counts once),
\* hence between 1 and k; no documents give the empty vocabulary.
C8_DocumentFrequency ==
    vpc = "built"
    => /\ builtVocabulary.totalDocuments = Len(documents)
       /\ DOMAIN builtVocabulary.documentFrequency = Range(builtVocabulary.terms)
       /\ \A term \in Range(builtVocabulary.terms) :
             /\ builtVocabulary.documentFrequency[term] = Cardinality(ContainingDocuments(term))
             /\ builtVocabulary.documentFrequency[term] \in 1..Len(documents)
       /\ Len(documents) = 0 => builtVocabulary = createEmptyVocabulary

\* two documents, the first repeating a term the second does not have
C8_Witness ==
    /\ vpc = "built"
    /\ Len(documents) = 2
    /\ documents[1].ngrams = <<Api, Api>>
    /\ documents[2].ngrams = <<X>>
    /\ builtVocabulary.totalDocuments = 2
    /\ builtVocabulary.documentFrequency[Api] = 1

\* the place where a term is first seen, documents in order, n-grams in order
FirstSeen(term) ==
    CHOOSE place \in {<<d, k>> : d \in 1..Len(documents), k \in 1..(MaxNgrams + 1)} :
        /\ place[2] <= Len(documents[place[1]].ngrams)
        /\ documents[place[1]].ngrams[place[2]] = term
        /\ \A d \in 1..Len(documents) : \A k \in 1..Len(documents[d].ngrams) :
              documents[d].ngrams[k] = term
              => (place[1] < d \/ (place[1] = d /\ place[2] <= k))

\* s precedes t in the first-seen order
SeenBefore(s, t) ==
    \/ FirstSeen(s)[1] < FirstSeen(t)[1]
    \/ (FirstSeen(s)[1] = FirstSeen(t)[1] /\ FirstSeen(s)[2] < FirstSeen(t)[2])

\* s is ahead of t in the vocabulary order
Ahead(s, t) ==
    \/ Cardinality(ContainingDocuments(s)) > Cardinality(ContainingDocuments(t))
    \/ /\ Cardinality(ContainingDocuments(s)) = Cardinality(ContainingDocuments(t))
       /\ SeenBefore(s, t)

\* the terms of the documents that are frequent enough for the builder
Qualifying ==
    {term \in UNION {Range(documents[d].ngrams) : d \in 1..Len(documents)} :
        /\ Len(Trim(term)) > 0
        /\ Cardinality(ContainingDocuments(term)) >= vocabBuilder.minDocumentFrequency}

\* C10: the terms buildVocabulary returns are the first maxVocabularySize of
\* the terms whose document frequency is at least minDocumentFrequency, in
\* descending order of document frequency, ties in first-seen order, and
\* termToIndex gives each term its position in that list.
C10_SelectedTerms ==
    vpc = "built"
    => /\ Len(builtVocabulary.terms) = Min(vocabBuilder.maxVocabularySize, Cardinality(Qualifying))
       /\ Range(builtVocabulary.terms) \subseteq Qualifying
       /\ \A j \in 1..(Len(builtVocabulary.terms) - 1) :
             Ahead(builtVocabulary.terms[j], builtVocabulary.terms[j + 1])
       /\ \A term \in Qualifying \ Range(builtVocabulary.terms) :
             \A j \in 1..Len(builtVocabulary.terms) : Ahead(builtVocabulary.terms[j], term)
       /\ DOMAIN builtVocabulary.termToIndex = Range(builtVocabulary.terms)
       /\ \A j \in 1..Len(builtVocabulary.terms) :
             builtVocabulary.termToIndex[builtVocabulary.terms[j]] = j - 1

\* minDocumentFrequency = 2 and two documents that share only 'api'
C10_Witness ==
    /\ vpc = "built"
    /\ vocabBuilder.minDocumentFrequency = 2
    /\ Len(documents) = 2
    /\ documents[1].ngrams = <<X, Api>>
    /\ documents[2].ngrams = <<Api>>
    /\ builtVocabulary.terms = <<Api>>

---------------------------------------------------------------------------
(* TFIDFCalculator on its own: a calculator is constructed, given a        *)
(* vocabulary, and asked for the vector of a processed text.               *)

\* the options a calculator is constructed with; the weight is in tenths
CalculatorOptionChoices ==
    [tfidfWeight : {{}, {0}, {5}, {10}}, useLogTF : {{}, {TRUE}, {FALSE}},
     useSmoothedIDF : {{}, {TRUE}, {FALSE}}]

\* a Vocabulary of totalDocuments documents whose one term is in
\* documentFrequency of them
OneTermVocabulary(documentFrequency, totalDocuments) ==
    [terms |-> <<X>>, termToIndex |-> [t \in {X} |-> 0],
     documentFrequency |-> [t \in {X} |-> documentFrequency],
     totalDocuments |-> totalDocuments]

\* a Vocabulary with a second term, Y, placed first and found in one document
TwoTermVocabulary(documentFrequency, totalDocuments) ==
    [terms |-> <<Y, X>>, termToIndex |-> [t \in {X, Y} |-> IF t = Y THEN 0 ELSE 1],
     documentFrequency |-> [t \in {X, Y} |-> IF t = Y THEN 1 ELSE documentFrequency],
     totalDocuments |-> totalDocuments]

InitTFIDF ==
    /\ tpc = "new"
    /\ tfidfCalculator = TFIDFCalculator([tfidfWeight |-> {}, useLogTF |-> {},
                                          useSmoothedIDF |-> {}])
    /\ corpus = createEmptyVocabulary
    /\ idfValue = 0
    /\ weighedText = <<>>
    /\ weights = <<>>
    /\ comparison = NoComparison
    /\ NoPipeline
    /\ NoBuilder
    /\ NoGenerator
    /\ NoValidation
    /\ NoLimits
    /\ NoDocs
    /\ NoTimed
    /\ NoChunked
    /\ NoOptimizer
    /\ NoManager
    /\ NoUpdate

\* new TFIDFCalculator(options)
NewCalculator ==
    /\ tpc = "new"
    /\ \E options \in CalculatorOptionChoices : tfidfCalculator' = TFIDFCalculator(options)
    /\ tpc' = "ready"
    /\ UNCHANGED <<corpus, idfValue, weighedText, weights, comparison, tfidfFrame>>

\* the vocabulary of a corpus, and calculateIDF of its term
TakeCorpus ==
    /\ tpc = "ready"
    /\ \E totalDocuments \in 1..MaxTotalDocuments :
          \E documentFrequency \in 1..totalDocuments :
             /\ corpus' = OneTermVocabulary(documentFrequency, totalDocuments)
             /\ idfValue' = calculateIDF(tfidfCalculator, X,
                                    OneTermVocabulary(documentFrequency, totalDocuments))
    /\ tpc' = "corpus"
    /\ UNCHANGED <<tfidfCalculator, weighedText, weights, comparison, tfidfFrame>>

\* the vocabulary of a corpus with two terms, and calculateIDF of its term X
TakeWiderCorpus ==
    /\ tpc = "ready"
    /\ \E totalDocuments \in 1..MaxTotalDocuments :
          \E documentFrequency \in 1..totalDocuments :
             /\ corpus' = TwoTermVocabulary(documentFrequency, totalDocuments)
             /\ idfValue' = calculateIDF(tfidfCalculator, X,
                                    TwoTermVocabulary(documentFrequency, totalDocuments))
    /\ tpc' = "corpus"
    /\ UNCHANGED <<tfidfCalculator, weighedText, weights, comparison, tfidfFrame>>

\* vector = calculator.createWeightedEmbedding(processedText, vocabulary)
Weigh ==
    /\ tpc = "corpus"
    /\ \E ngrams \in SeqsUpTo({X, Y}, MaxTerms) :
          /\ weighedText' = AsProcessed(ngrams)
          /\ weights' = createWeightedEmbedding(tfidfCalculator, AsProcessed(ngrams), corpus)
    /\ tpc' = "weighted"
    /\ UNCHANGED <<tfidfCalculator, corpus, idfValue, comparison, tfidfFrame>>

\* vector = calculator.calculateDocumentTFIDF(processedText, vocabulary)
DocumentTFIDF ==
    /\ tpc = "corpus"
    /\ \E ngrams \in SeqsUpTo({X, Y}, MaxTerms) :
          /\ weighedText' = AsProcessed(ngrams)
          /\ weights' = calculateDocumentTFIDF(tfidfCalculator, AsProcessed(ngrams), corpus)
    /\ tpc' = "documentTFIDF"
    /\ UNCHANGED <<tfidfCalculator, corpus, idfValue, comparison, tfidfFrame>>

NextTFIDF == NewCalculator \/ TakeCorpus \/ TakeWiderCorpus \/ Weigh \/ DocumentTFIDF

SpecTFIDF == InitTFIDF /\ [][NextTFIDF]_vars

\* C6: the IDF of a term of the vocabulary is never exactly 0, for every
\* totalDocuments >= 1, every document frequency from 1 to totalDocuments and
\* both settings of useSmoothedIDF.
C6_IDFNeverZero ==
    (/\ tpc \in {"corpus", "weighted", "documentTFIDF"}
     /\ corpus.totalDocuments >= 1
     /\ corpus.documentFrequency[X] \in 1..corpus.totalDocuments)
    => idfValue # 0

\* C7: every entry of a vector from createWeightedEmbedding or
\* calculateDocumentTFIDF is non-negative, for every tfidfWeight in [0, 1],
\* both TF modes, both IDF modes, every processed text and vocabulary.
C7_NonNegativeEntries ==
    tpc \in {"weighted", "documentTFIDF"} => \A i \in 1..Len(weights) : weights[i] >= 0

\* the term at place i of the vocabulary is among the n-grams of the text
Present(i) == TermCount(weighedText.ngrams, corpus.terms[i]) > 0

---------------------------------------------------------------------------
(* Repeated calls of generateEnhancedEmbeddings on one generator instance. *)
(* The caller holds config objects by name and passes one by reference, so *)
(* what the call writes through the reference is seen in configObjects.    *)

MaxCalls == 3

\* two plain words, one word in camel case, and six words in a row
XY == <<"x", " ", "y">>

CamelCase == <<"x", "Y">>

SixWords == <<"u", " ", "v", " ", "w", " ", "x", " ", "y", " ", "z">>

GeneratorContents == {<<>>, XY, CamelCase, SixWords}

\* the config objects of the caller: one that the tuning applies to, one that
\* leaves the TF-IDF options out, and one with values out of range
CallerConfigs ==
    [tuned |-> [getDefaultConfig EXCEPT
                    !.vocabularyOptions.maxVocabularySize = 5000,
                    !.vocabularyOptions.ngramSizes = <<1, 2, 3>>],
     weighted |-> [getDefaultConfig EXCEPT
                    !.tfidfWeight = 10, !.tfidfOptions = NoTFIDFOptions],
     invalid |-> [getDefaultConfig EXCEPT
                    !.tfidfWeight = 20, !.ngramSizes = <<1, 6>>]]

ConfigNames == DOMAIN CallerConfigs

\* EnhancedEmbeddingGenerator.validateConfig: the errors it lists
validateConfig(config) ==
    (IF config.tfidfWeight < 0 \/ config.tfidfWeight > 10
     THEN <<"tfidfWeight must be between 0 and 1">> ELSE <<>>)
    \o (IF \E k \in 1..Len(config.ngramSizes) :
              config.ngramSizes[k] < 1 \/ config.ngramSizes[k] > 5
        THEN <<"ngramSizes must contain values between 1 and 5">> ELSE <<>>)
    \o (IF /\ config.vocabularyOptions.present
           /\ config.vocabularyOptions.maxVocabularySize # 0
           /\ config.vocabularyOptions.maxVocabularySize < 1
        THEN <<"maxVocabularySize must be greater than 0">> ELSE <<>>)

\* const optimizedConfig = shouldOptimizeConfig(config) ? optimize... : config
OptimizedConfig(chunks, config) ==
    IF shouldOptimizeConfig(config)
    THEN optimizeConfigForContent(chunks, config) ELSE config

\* the caller's object after the call: optimizedConfig is {...baseConfig}, a
\* copy whose vocabularyOptions is the object of the base, so what
\* optimizeConfigForContent assigns to optimizedConfig.vocabularyOptions.* is
\* assigned to the caller's object; the other fields are assigned to the copy
ConfigAfter(chunks, config) ==
    IF Len(chunks) = 0 \/ ~shouldOptimizeConfig(config) THEN config
    ELSE [config EXCEPT
            !.vocabularyOptions = optimizeConfigForContent(chunks, config).vocabularyOptions]

\* the fields as the previous call left them
KeptFields(inst, chunks, optimizedConfig, config) == inst

\* this.vocabularyBuilder = new VocabularyBuilder(optimizedConfig.vocabularyOptions)
\* this.tfidfCalculator = new TFIDFCalculator({...config.tfidfOptions, tfidfWeight})
\* neither is reached when there are no chunks
FieldsAfter(inst, chunks, optimizedConfig, config) ==
    IF Len(chunks) = 0 THEN inst
    ELSE [vocabularyBuilder |-> VocabularyBuilder(optimizedConfig.vocabularyOptions),
          tfidfCalculator |-> CalculatorOf(config)]

\* this.vocabularyBuilder.buildVocabulary and this.tfidfCalculator
\* .createWeightedEmbedding read the fields after they are assigned
FieldsUsed(inst, chunks, optimizedConfig, config) ==
    FieldsAfter(inst, chunks, optimizedConfig, config)

\* the vector of one chunk, from the fields of the instance
InstanceEmbedding(inst, processedText, vocabulary, config) ==
    IF config.enableTFIDF /\ Len(vocabulary.terms) > 0
    THEN createWeightedEmbedding(inst.tfidfCalculator, processedText, vocabulary)
    ELSE createSimpleBoW(processedText, vocabulary)

\* all the vectors, before the filter
InstanceVectors(inst, processedTexts, vocabulary, config) ==
    <<>> \o [i \in 1..Len(processedTexts) |->
                InstanceEmbedding(inst, processedTexts[i], vocabulary, config)]

\* if (embedding.some((v) => v > 0)) embeddings.push({chunk, embedding, metadata})
PushedChunks(chunks, vectors) ==
    FilterIdx(<<>> \o [i \in 1..Len(chunks) |-> [chunk |-> chunks[i], embedding |-> vectors[i]]],
              {i \in 1..Len(chunks) : HasPositiveEntry(vectors[i])})

\* what one call leaves behind: its arguments, the chunks and their vectors,
\* the output, and the n-grams the vectors were built from
CallRecord(text, name, config, inst, chunks, processedTexts, vocabulary, vectors) ==
    [content |-> text, name |-> name, before |-> config,
     errors |-> validateConfig(config),
     chunks |-> chunks, vectors |-> vectors,
     embeddings |-> PushedChunks(chunks, vectors),
     vocabulary |-> vocabulary,
     ngrams |-> <<>> \o [i \in 1..Len(processedTexts) |-> processedTexts[i].ngrams],
     tfidfWeight |-> inst.tfidfCalculator.tfidfWeight]

CallVectors(text, name, config, inst, chunks, processedTexts, vocabulary) ==
    CallRecord(text, name, config, inst, chunks, processedTexts, vocabulary,
               InstanceVectors(inst, processedTexts, vocabulary, config))

CallVocabulary(text, name, config, inst, chunks, processedTexts) ==
    CallVectors(text, name, config, inst, chunks, processedTexts,
                buildVocabulary(inst.vocabularyBuilder, processedTexts))

\* the method on the instance whose fields are already reassigned
CallOn(text, name, config, inst, chunks, optimizedConfig) ==
    IF Len(chunks) = 0
    THEN CallRecord(text, name, config, inst, chunks, <<>>, createEmptyVocabulary, <<>>)
    ELSE CallVocabulary(text, name, config, inst, chunks,
                        ProcessAll(chunks, ProcessingOptionsOf(optimizedConfig)))

InitGen ==
    /\ instance = [vocabularyBuilder |-> VocabularyBuilder(NoVocabularyOptions),
                   tfidfCalculator |-> TFIDFCalculator([tfidfWeight |-> {},
                                          useLogTF |-> {}, useSmoothedIDF |-> {}])]
    /\ configObjects = CallerConfigs
    /\ calls = <<>>
    /\ NoPipeline
    /\ NoBuilder
    /\ NoCalculator
    /\ NoValidation
    /\ NoLimits
    /\ NoDocs
    /\ NoTimed
    /\ NoChunked
    /\ NoOptimizer
    /\ NoManager
    /\ NoUpdate

\* embeddings.ts generateEnhancedEmbeddings(content, config) with the generator
\* initialised: validateConfig, whose errors are only logged, then the method
GenerateCall ==
    /\ Len(calls) < MaxCalls
    /\ \E text \in GeneratorContents, name \in ConfigNames :
        \E chunks \in {enhancedChunkText(text)} :
        \E optimizedConfig \in {OptimizedConfig(chunks, configObjects[name])} :
        \E inst \in {FieldsUsed(instance, chunks, optimizedConfig, configObjects[name])} :
          /\ instance' = FieldsAfter(instance, chunks, optimizedConfig, configObjects[name])
          /\ calls' = Append(calls, CallOn(text, name, configObjects[name], inst,
                                           chunks, optimizedConfig))
          /\ configObjects' = [configObjects EXCEPT
                                  ![name] = ConfigAfter(chunks, configObjects[name])]
    /\ UNCHANGED genFrame

NextGen == GenerateCall

SpecGen == InitGen /\ [][NextGen]_vars

\* C11: the call never mutates the config object passed in: afterwards every
\* field of it, the nested vocabularyOptions (maxVocabularySize, ngramSizes)
\* included, has the value it had before the call.
C11_ConfigNotMutated ==
    [][\A name \in ConfigNames : configObjects'[name] = configObjects[name]]_vars

---------------------------------------------------------------------------
(* config/validation.ts: validateEmbeddingConfig and mergeWithDefaults of  *)
(* a Partial<EmbeddingConfig>.  A field the caller leaves out is the empty *)
(* set; the fields have their declared types (a flag is a boolean, a size  *)
(* an integer), and customStopwords and processingLimits are left out.     *)

MaxSupplied == 2

MaxSuppliedSize == 6

maxNgramSize == 3

Supplied(optional) == CHOOSE x \in optional : TRUE

PartialConfigs ==
    [enableTFIDF : {{}, {FALSE}},
     enableStemming : {{}, {TRUE}, {FALSE}},
     enableStopwordRemoval : {{}, {FALSE}},
     ngramSizes : {{}} \cup {{s} : s \in SeqsUpTo(0..MaxSuppliedSize, MaxSupplied)},
     tfidfWeight : {{}, {0 - 1}, {0}, {7}, {10}, {20}},
     language : {{}, {"en"}, {"pt"}, {"fr"}}]

\* config.ngramSizes.filter(n => Number.isInteger(n) && n >= 1 && n <= maxNgramSize)
ValidNgrams(sizes) ==
    FilterIdx(sizes, {k \in 1..Len(sizes) : sizes[k] >= 1 /\ sizes[k] <= maxNgramSize})

\* [...new Set(validNgrams)].sort(): the order of one-digit sizes as strings
\* is their order as numbers
SortedUnique(sizes) ==
    <<>> \o [k \in 1..Cardinality(Range(sizes)) |-> KthSmallest(Range(sizes), k)]

NgramSizesErrors(optional) ==
    IF optional = {} THEN <<>>
    ELSE IF Len(Supplied(optional)) = 0 THEN <<"ngramSizes cannot be empty">>
    ELSE IF Len(ValidNgrams(Supplied(optional))) = 0
    THEN <<"ngramSizes must contain integers between 1 and 3">>
    ELSE <<>>

TfidfWeightErrors(optional) ==
    IF optional # {} /\ (Supplied(optional) < 0 \/ Supplied(optional) > 10)
    THEN <<"tfidfWeight must be a number between 0 and 1">> ELSE <<>>

LanguageErrors(optional) ==
    IF optional # {} /\ Supplied(optional) \notin {"en", "pt"}
    THEN <<"language must be one of: en, pt">> ELSE <<>>

\* the errors in the order they are pushed
ValidationErrors(config) ==
    NgramSizesErrors(config.ngramSizes) \o TfidfWeightErrors(config.tfidfWeight)
        \o LanguageErrors(config.language)

\* sanitizedConfig when the function returns: {...DEFAULT_EMBEDDING_CONFIG}
\* with the fields that passed
SanitizedConfig(config) ==
    [DEFAULT_EMBEDDING_CONFIG EXCEPT
        !.enableTFIDF = OrElse(config.enableTFIDF, @),
        !.enableStemming = OrElse(config.enableStemming, @),
        !.enableStopwordRemoval = OrElse(config.enableStopwordRemoval, @),
        !.ngramSizes = IF config.ngramSizes # {}
                          /\ Len(ValidNgrams(OrElse(config.ngramSizes, <<>>))) > 0
                       THEN SortedUnique(ValidNgrams(Supplied(config.ngramSizes)))
                       ELSE @,
        !.tfidfWeight = IF config.tfidfWeight # {} /\ TfidfWeightErrors(config.tfidfWeight) = <<>>
                        THEN Supplied(config.tfidfWeight) ELSE @,
        !.language = IF config.language # {} /\ LanguageErrors(config.language) = <<>>
                     THEN Supplied(config.language) ELSE @]

\* {isValid, errors, sanitizedConfig: errors.length === 0 ? sanitizedConfig : undefined}
ValidationResult(errors, sanitizedConfig) ==
    [isValid |-> Len(errors) = 0, errors |-> errors,
     sanitizedConfig |-> IF Len(errors) = 0 THEN {sanitizedConfig} ELSE {}]

validateEmbeddingConfig(config) ==
    ValidationResult(ValidationErrors(config), SanitizedConfig(config))

\* an invalid config is answered with DEFAULT_EMBEDDING_CONFIG as a whole
MergeResult(result) ==
    IF ~result.isValid THEN DEFAULT_EMBEDDING_CONFIG ELSE Supplied(result.sanitizedConfig)

mergeWithDefaults(config) == MergeResult(validateEmbeddingConfig(config))

NoUserConfig ==
    [enableTFIDF |-> {}, enableStemming |-> {}, enableStopwordRemoval |-> {},
     ngramSizes |-> {}, tfidfWeight |-> {}, language |-> {}]

InitConfig ==
    /\ cfgpc = "start"
    /\ userConfig = NoUserConfig
    /\ validation = validateEmbeddingConfig(NoUserConfig)
    /\ merged = DEFAULT_EMBEDDING_CONFIG
    /\ NoPipeline
    /\ NoBuilder
    /\ NoCalculator
    /\ NoGenerator
    /\ NoLimits
    /\ NoDocs
    /\ NoTimed
    /\ NoChunked
    /\ NoOptimizer
    /\ NoManager
    /\ NoUpdate

\* const validation = validateEmbeddingConfig(config)
Validate ==
    /\ cfgpc = "start"
    /\ \E config \in PartialConfigs :
          /\ userConfig' = config
          /\ validation' = validateEmbeddingConfig(config)
    /\ cfgpc' = "validated"
    /\ UNCHANGED <<merged, cfgFrame>>

\* const config = mergeWithDefaults(userConfig), which validates again
Merge ==
    /\ cfgpc = "validated"
    /\ merged' = mergeWithDefaults(userConfig)
    /\ cfgpc' = "merged"
    /\ UNCHANGED <<userConfig, validation, cfgFrame>>

NextConfig == Validate \/ Merge

SpecConfig == InitConfig /\ [][NextConfig]_vars

\* the fields of a partial config that validation finds fault with
RejectedFields(config) ==
    (IF NgramSizesErrors(config.ngramSizes) # <<>> THEN {"ngramSizes"} ELSE {})
    \cup (IF TfidfWeightErrors(config.tfidfWeight) # <<>> THEN {"tfidfWeight"} ELSE {})
    \cup (IF LanguageErrors(config.language) # <<>> THEN {"language"} ELSE {})

SuppliedFields(config) == {f \in DOMAIN config : config[f] # {}}

\* a valid supplied field keeps its value: the sizes as the set they are
KeepsSupplied(result, config, f) ==
    IF f = "ngramSizes" THEN Range(result[f]) = Range(ValidNgrams(Supplied(config[f])))
    ELSE result[f] = Supplied(config[f])

\* C12: when a partial config holds valid and invalid fields, only the invalid
\* ones are rejected: the errors come with a usable config, and in it and in
\* what mergeWithDefaults returns each rejected field has its default value
\* and each valid supplied field keeps the supplied value.
C12_FieldByField ==
    (/\ cfgpc = "merged"
     /\ RejectedFields(userConfig) # {}
     /\ SuppliedFields(userConfig) \ RejectedFields(userConfig) # {})
    => /\ validation.errors # <<>>
       /\ validation.sanitizedConfig # {}
       /\ \A f \in RejectedFields(userConfig) : merged[f] = DEFAULT_EMBEDDING_CONFIG[f]
       /\ \A f \in SuppliedFields(userConfig) \ RejectedFields(userConfig) :
             KeepsSupplied(merged, userConfig, f)

SizesInRange(sizes) == \A k \in 1..Len(sizes) : sizes[k] >= 1 /\ sizes[k] <= 5

\* the validation result lists an error about ngramSizes
SizesRejected(result) ==
    \E k \in 1..Len(result.errors) :
        result.errors[k] \in {"ngramSizes cannot be empty",
                              "ngramSizes must contain integers between 1 and 3"}

\* C14: validation accepts exactly the n-gram sizes that are integers in
\* [1, 5]: supplied sizes that all lie in [1, 5] raise no error and are kept,
\* and a supplied size outside [1, 5] raises an error and is not silently
\* dropped.
C14_SizesOneToFive ==
    (/\ cfgpc = "validated"
     /\ userConfig.ngramSizes # {}
     /\ Len(Supplied(userConfig.ngramSizes)) > 0)
    => IF SizesInRange(Supplied(userConfig.ngramSizes))
       THEN /\ ~SizesRejected(validation)
            /\ validation.isValid =>
                  Range(Supplied(validation.sanitizedConfig).ngramSizes)
                      = Range(Supplied(userConfig.ngramSizes))
       ELSE SizesRejected(validation)

\* the number of words of an n-gram
WordsIn(ngram) == Cardinality({k \in 1..Len(ngram) : ngram[k] = " "}) + 1

\* C13: a tfidfWeight outside [0, 1] or an n-gram size outside [1, 5] in the
\* config of a call is never used to build vectors: the vectors of every call
\* are weighted with a tfidfWeight in [0, 1] and are over terms of one to
\* five words.
C13_OutOfRangeNotUsed ==
    \A i \in 1..Len(calls) :
        Len(calls[i].chunks) > 0 =>
            /\ calls[i].tfidfWeight \in 0..10
            /\ \A k \in 1..Len(calls[i].vocabulary.terms) :
                  WordsIn(calls[i].vocabulary.terms[k]) \in 1..5

\* C15: a chunk is emitted if and only if its vector is not entirely zero:
\* every chunk whose vector has a non-zero entry is in the output of the call
\* and no chunk with an all-zero vector is.
C15_EmittedIffNonZero ==
    \A i \in 1..Len(calls) : \A c \in 1..Len(calls[i].chunks) :
        (\E k \in 1..Len(calls[i].vectors[c]) : calls[i].vectors[c][k] # 0)
        <=> (\E e \in 1..Len(calls[i].embeddings) :
                /\ calls[i].embeddings[e].chunk = calls[i].chunks[c]
                /\ calls[i].embeddings[e].embedding = calls[i].vectors[c])


\* C19: generation is deterministic: two calls on the same generator instance
\* with equal content and equal config values return the same chunks in the
\* same order with the same vectors, whatever calls ran in between.
C19_Deterministic ==
    \A i \in 1..Len(calls) : \A j \in 1..Len(calls) :
        (calls[i].content = calls[j].content /\ calls[i].before = calls[j].before)
        => /\ calls[i].embeddings = calls[j].embeddings
           /\ calls[i].vocabulary = calls[j].vocabulary

\* the first and the third call are alike and return a chunk; the call in
\* between had other content and another config and left another calculator
C19_Witness ==
    /\ Len(calls) = 3
    /\ calls[1].content = calls[3].content
    /\ calls[1].before = calls[3].before
    /\ calls[2].content # calls[1].content
    /\ calls[2].before # calls[1].before
    /\ calls[2].chunks # <<>>
    /\ calls[2].tfidfWeight # calls[1].tfidfWeight
    /\ calls[1].embeddings # <<>>
    /\ calls[3].embeddings = calls[1].embeddings

---------------------------------------------------------------------------
(* embeddings.ts: generateEmbeddingsWithLimits(content, config, limits).   *)
(* The config and the limits are objects whose fields may be left out (the *)
(* empty set); undefinedSizes marks a config whose own property ngramSizes *)
(* is undefined.  The time the generation took is an input.                *)

MaxElapsed == 2

DEFAULT_PROCESSING_LIMITS ==
    [maxVocabularySize |-> 10000, maxNgramSize |-> maxNgramSize,
     maxProcessingTimeMs |-> 5000, maxChunkSize |-> 2048]

FourWords == <<"u", " ", "v", " ", "w", " ", "x">>

LimitedContents == {<<>>, XY, FourWords, SixWords}

LimitedConfigs ==
    [ngramSizes : {{}, {<<1, 2>>}}, tfidfWeight : {{}, {1}}, undefinedSizes : BOOLEAN]

LimitChoices == [maxChunkSize : {{}, {1}}, maxProcessingTimeMs : {{}, {1}}]

\* {...DEFAULT_PROCESSING_LIMITS, ...limits}
EffectiveLimits(limits) ==
    [DEFAULT_PROCESSING_LIMITS EXCEPT
        !.maxChunkSize = OrElse(limits.maxChunkSize, @),
        !.maxProcessingTimeMs = OrElse(limits.maxProcessingTimeMs, @)]

\* content.length > effectiveLimits.maxChunkSize * 5: only 1-grams
LargeContent(text, limits) == Len(text) > EffectiveLimits(limits).maxChunkSize * 5

\* {...getDefaultEmbeddingConfig(), ...config, processingLimits}, then the
\* optimizations for large content
EffectiveConfig(text, config, limits) ==
    [getDefaultEmbeddingConfig EXCEPT
        !.ngramSizes = IF LargeContent(text, limits) THEN <<1>>
                       ELSE OrElse(config.ngramSizes, @),
        !.tfidfWeight = IF LargeContent(text, limits) THEN 5
                        ELSE OrElse(config.tfidfWeight, @)]

\* config.ngramSizes.some(...) in validateConfig throws a TypeError when the
\* sizes are undefined and the optimizations did not replace them
EnhancedFails(text, config, limits) ==
    config.undefinedSizes /\ ~LargeContent(text, limits)

\* enhanced.map((e) => ({chunk: e.chunk, embedding: e.embedding}))
ChunkAndEmbedding(embeddings) ==
    <<>> \o [i \in 1..Len(embeddings) |->
                [chunk |-> embeddings[i].chunk, embedding |-> embeddings[i].embedding]]

SizeWarning == "Content size exceeds recommended limit. Processing may be slow."

OptimizationWarning == "Applied performance optimizations for large content"

FailureWarning == "Enhanced generation failed"

TimeoutWarning == "Processing time exceeded limit"

\* a version that gives up the embeddings when the time budget is exceeded
DiscardedOnTimeout(path, computed, warnings, processingTime, limits) ==
    [kind |-> IF processingTime > limits.maxProcessingTimeMs THEN "threw" ELSE "returned",
     path |-> path, computed |-> computed,
     embeddings |-> IF processingTime > limits.maxProcessingTimeMs THEN <<>> ELSE computed,
     warnings |-> warnings, processingTime |-> processingTime]

\* the check of the processing time and the return statement
TimedResult(path, computed, warnings, processingTime, limits) ==
    [kind |-> "returned", path |-> path, computed |-> computed, embeddings |-> computed,
     warnings |-> warnings \o (IF processingTime > limits.maxProcessingTimeMs
                               THEN <<TimeoutWarning>> ELSE <<>>),
     processingTime |-> processingTime]

\* the enhanced branch: the inner try and its catch block
EnhancedOrFallback(text, config, limits, warnings, processingTime) ==
    IF EnhancedFails(text, config, limits)
    THEN TimedResult("fallback", ChunkAndEmbedding(generateEmbeddings(text)),
                     Append(warnings, FailureWarning), processingTime,
                     EffectiveLimits(limits))
    ELSE TimedResult("enhanced",
                     ChunkAndEmbedding(generateEnhancedEmbeddings(
                         text, EffectiveConfig(text, config, limits))),
                     warnings \o (IF LargeContent(text, limits)
                                  THEN <<OptimizationWarning>> ELSE <<>>),
                     processingTime, EffectiveLimits(limits))

\* the outer try block after the check of the content size
GenerateLimited(text, config, limits, available, warnings, processingTime) ==
    IF available
    THEN EnhancedOrFallback(text, config, limits, warnings, processingTime)
    ELSE TimedResult("legacy", ChunkAndEmbedding(generateEmbeddings(text)), warnings,
                     processingTime, EffectiveLimits(limits))

\* generateEmbeddingsWithLimits; available is isEnhancedEmbeddingsAvailable()
generateEmbeddingsWithLimits(text, config, limits, available, processingTime) ==
    GenerateLimited(text, config, limits, available,
                    IF Len(text) > EffectiveLimits(limits).maxChunkSize * 10
                    THEN <<SizeWarning>> ELSE <<>>,
                    processingTime)

NoLimited ==
    [content |-> <<>>,
     config |-> [ngramSizes |-> {}, tfidfWeight |-> {}, undefinedSizes |-> FALSE],
     limits |-> [maxChunkSize |-> {}, maxProcessingTimeMs |-> {}],
     result |-> TimedResult("none", <<>>, <<>>, 0, DEFAULT_PROCESSING_LIMITS)]

InitLimits ==
    /\ lpc = "start"
    /\ limited = NoLimited
    /\ pc = "start"
    /\ enhancedGenerator = FALSE
    /\ content = <<>>
    /\ origin = "none"
    /\ genVocab = <<>>
    /\ stored = <<>>
    /\ question = <<>>
    /\ topK = 0
    /\ minSim = 0
    /\ boost = <<FALSE, "none">>
    /\ outcome = NoOutcome
    /\ NoBuilder
    /\ NoCalculator
    /\ NoGenerator
    /\ NoValidation
    /\ NoDocs
    /\ NoTimed
    /\ NoChunked
    /\ NoOptimizer
    /\ NoManager
    /\ NoUpdate

\* const {embeddings, warnings, processingTime} =
\*     generateEmbeddingsWithLimits(content, config, limits)
GenerateWithLimits ==
    /\ lpc = "start"
    /\ \E text \in LimitedContents, config \in LimitedConfigs, limits \in LimitChoices,
          processingTime \in 0..MaxElapsed :
          limited' = [content |-> text, config |-> config, limits |-> limits,
                      result |-> generateEmbeddingsWithLimits(
                                     text, config, limits, enhancedGenerator,
                                     processingTime)]
    /\ lpc' = "done"
    /\ UNCHANGED limFrame

NextLimits == Initialize \/ GenerateWithLimits

SpecLimits == InitLimits /\ [][NextLimits]_vars

\* C18: generateEmbeddingsWithLimits never throws: on every path it returns
\* embeddings, warnings and processingTime; when the content size or the
\* processing time exceeds its budget, or the config is cut down to 1-grams,
\* the warnings say so and the embeddings that were computed are returned.
C18_WarnsAndReturns ==
    lpc = "done" =>
        /\ limited.result.kind = "returned"
        /\ limited.result.embeddings = limited.result.computed
        /\ Len(limited.content) > EffectiveLimits(limited.limits).maxChunkSize * 10
              => SizeWarning \in Range(limited.result.warnings)
        /\ limited.result.processingTime > EffectiveLimits(limited.limits).maxProcessingTimeMs
              => TimeoutWarning \in Range(limited.result.warnings)
        /\ (limited.result.path = "enhanced" /\ LargeContent(limited.content, limited.limits))
              => OptimizationWarning \in Range(limited.result.warnings)
        /\ limited.result.path = "fallback"
              => FailureWarning \in Range(limited.result.warnings)

\* the enhanced branch over content beyond both size budgets, out of time:
\* three warnings and the embeddings of the 1-gram config
C18_Witness ==
    /\ lpc = "done"
    /\ limited.result.kind = "returned"
    /\ limited.result.path = "enhanced"
    /\ limited.result.warnings = <<SizeWarning, OptimizationWarning, TimeoutWarning>>
    /\ limited.result.embeddings # <<>>
    /\ limited.result.embeddings = limited.result.computed

---------------------------------------------------------------------------
(* The documentation sources: the chat commands /docs add, /docs remove,   *)
(* /docs switch, /load and /clear over the two keys of the workspace       *)
(* store.  A command runs to completion before the next one is handled.    *)
(* A name or a URL is a text; a file name of the related-documents list    *)
(* is kept as one token.                                                   *)

MaxSources == 2

\* the names and URLs a user types; <<>> is a missing argument
DocNames == {<<"a">>, <<"b">>}

DocUrls == {<<"h", "/", "a">>, <<"h", "/", "b">>}

\* what a URL serves
DocContents == {XY}

\* s.lastIndexOf(c), counted from 1; 0 when c is not in s
LastIndexOf(s, c) ==
    IF \E i \in DOMAIN s : s[i] = c
    THEN CHOOSE i \in DOMAIN s : s[i] = c /\ \A j \in DOMAIN s : s[j] = c => j <= i
    ELSE 0

\* url.substring(0, url.lastIndexOf("/"))
BaseUrl(url) == SubSeq(url, 1, LastIndexOf(url, "/") - 1)

\* url.split("/").pop() || url
NameOfUrl(url) ==
    LET last == SubSeq(url, LastIndexOf(url, "/") + 1, Len(url))
    IN  IF last = <<>> THEN url ELSE last

patterns == <<"llms.txt", "llms-full.txt", "ai.md", "README.md">>

\* the URLs findRelatedDocs probes: `${baseUrl}/${pattern}`
RelatedCandidates(url) == {BaseUrl(url) \o <<"/", patterns[i]>> : i \in DOMAIN patterns}

\* the URL /load fetches: the one given, or the related document the user
\* picked among those that answered the probe
LoadedUrls(url) == {url} \cup RelatedCandidates(url)

DocSource(name, url, text) ==
    [name |-> name, url |-> url, content |-> text,
     embeddings |-> generateEmbeddings(text), embeddingConfig |-> {}]

getDocSources == docSources

addDocSource(sources, name, url, text) == Append(sources, DocSource(name, url, text))

removeDocSource(sources, name) ==
    FilterIdx(sources, {i \in DOMAIN sources : sources[i].name # name})

getActiveDoc == activeDoc

\* sources.find(source => source.name === name): the first one, or undefined
setActiveDoc(sources, name) ==
    IF \E i \in DOMAIN sources : sources[i].name = name
    THEN {sources[CHOOSE i \in DOMAIN sources :
                    /\ sources[i].name = name
                    /\ \A j \in DOMAIN sources : sources[j].name = name => i <= j]}
    ELSE {}

clearActiveDoc == {}

Handled(kind, name, url, report) == [kind |-> kind, name |-> name, url |-> url, report |-> report]

\* axios.get(url): {} when the request fails, else {response.data}
Responses == {{}} \cup {{text} : text \in DocContents}

InitDocs ==
    /\ docSources = <<>>
    /\ activeDoc = {}
    /\ command = Handled("none", <<>>, <<>>, "none")
    /\ NoPipeline
    /\ NoBuilder
    /\ NoCalculator
    /\ NoGenerator
    /\ NoValidation
    /\ NoLimits
    /\ NoTimed
    /\ NoChunked
    /\ NoOptimizer
    /\ NoManager
    /\ NoUpdate

\* the store after addDocSource and setActiveDoc
Added(name, url, text) ==
    LET sources == addDocSource(getDocSources, name, url, text)
    IN  /\ docSources' = sources
        /\ activeDoc' = setActiveDoc(sources, name)

\* /docs add <name> <url>
DocsAdd ==
    \E name \in DocNames \cup {<<>>}, url \in DocUrls \cup {<<>>}, response \in Responses :
        /\ response = {} \/ Len(docSources) < MaxSources
        /\ IF name = <<>> \/ url = <<>>
           THEN /\ command' = Handled("add", name, url, "usage")
                /\ UNCHANGED <<docSources, activeDoc>>
           ELSE IF response = {}
           THEN /\ command' = Handled("add", name, url, "loadFailed")
                /\ UNCHANGED <<docSources, activeDoc>>
           ELSE /\ \E text \in response : Added(name, url, text)
                /\ command' = Handled("add", name, url, "success")
        /\ UNCHANGED docFrame

\* the names a user can give to /docs remove and /docs switch
KnownNames == DocNames \cup {docSources[i].name : i \in DOMAIN docSources} \cup {<<>>}

\* /docs remove <name>
DocsRemove ==
    \E nameToRemove \in KnownNames :
        /\ IF nameToRemove = <<>>
           THEN /\ command' = Handled("remove", nameToRemove, <<>>, "usage")
                /\ UNCHANGED docSources
           ELSE /\ docSources' = removeDocSource(getDocSources, nameToRemove)
                /\ command' = Handled("remove", nameToRemove, <<>>, "success")
        /\ UNCHANGED activeDoc
        /\ UNCHANGED docFrame

\* /docs switch <name>
DocsSwitch ==
    \E nameToSwitch \in KnownNames :
        /\ IF nameToSwitch = <<>>
           THEN /\ command' = Handled("switch", nameToSwitch, <<>>, "usage")
                /\ UNCHANGED activeDoc
           ELSE /\ activeDoc' = setActiveDoc(getDocSources, nameToSwitch)
                /\ command' = Handled("switch", nameToSwitch, <<>>, "success")
        /\ UNCHANGED docSources
        /\ UNCHANGED docFrame

\* /load <url>
Load ==
    \E given \in DocUrls \cup {<<>>}, response \in Responses :
        /\ response = {} \/ Len(docSources) < MaxSources
        /\ IF given = <<>>
           THEN /\ command' = Handled("load", <<>>, given, "help")
                /\ UNCHANGED <<docSources, activeDoc>>
           ELSE \E url \in LoadedUrls(given) :
                  IF response = {}
                  THEN /\ command' = Handled("load", <<>>, url, "loadFailed")
                       /\ UNCHANGED <<docSources, activeDoc>>
                  ELSE /\ \E text \in response : Added(NameOfUrl(url), url, text)
                       /\ command' = Handled("load", NameOfUrl(url), url, "success")
        /\ UNCHANGED docFrame

\* /clear
Clear ==
    /\ activeDoc' = clearActiveDoc
    /\ command' = Handled("clear", <<>>, <<>>, "cleared")
    /\ UNCHANGED docSources
    /\ UNCHANGED docFrame

NextDocs == DocsAdd \/ DocsRemove \/ DocsSwitch \/ Load \/ Clear

SpecDocs == InitDocs /\ [][NextDocs]_vars

\* C21: after /docs add <name> <url> reports success, the active document is
\* the source just added: its name and its url are the ones given, whatever
\* the store held before, a source of the same name included.
C21_AddedIsActive ==
    (command.kind = "add" /\ command.report = "success")
    => \E source \in getActiveDoc :
          /\ source.name = command.name
          /\ source.url = command.url

\* C22: after /clear, getActiveDoc returns undefined and getDocSources
\* returns the empty list.
C22_ClearRemovesAll ==
    command.kind = "clear" => (getActiveDoc = {} /\ getDocSources = <<>>)

\* C27: after any sequence of /docs add, /docs remove, /docs switch, /load
\* and /clear, the active document, when defined, is one of the stored
\* sources.
C27_ActiveIsStored ==
    \A source \in getActiveDoc : \E i \in DOMAIN getDocSources : getDocSources[i] = source

---------------------------------------------------------------------------
(* embeddings.ts: findMostRelevantChunksWithTimeout.  The executor of the  *)
(* promise runs to completion on the one JavaScript thread; a timer        *)
(* callback runs only after it, and only when the timer is still armed.    *)

MaxTimeoutMs == 2

MaxDuration == 3

DefaultTimeoutMs == 3000

\* options.timeoutMs: {} when the caller gives none
TimeoutChoices == {{}} \cup {{t} : t \in 1..MaxTimeoutMs}

\* options.topK
TimedTopKs == {1, 2}

Pending == [state |-> "pending", value |-> <<>>]

\* resolve(value) or reject(error) of a promise: only the first one settles it
Settled(promise, state, value) ==
    IF promise.state = "pending" THEN [state |-> state, value |-> value] ELSE promise

\* new Promise(...) after setTimeout(...)
Armed == [promise |-> Pending, timer |-> "armed", settles |-> 0]

clearTimeout(call) == [call EXCEPT !.timer = IF @ = "armed" THEN "cleared" ELSE @]

ResolveWith(call, value) ==
    [call EXCEPT !.promise = Settled(@, "resolved", value), !.settles = @ + 1]

RejectWith(call, error) ==
    [call EXCEPT !.promise = Settled(@, "rejected", error), !.settles = @ + 1]

TimeoutError(timeoutMs) == <<"Retrieval timeout after", timeoutMs, "ms">>

\* basicResults.map((chunk) => ({chunk, similarity: 0.5, metadata: ...}))
FallbackResults(basicResults, embeddings) ==
    <<>> \o [i \in DOMAIN basicResults |->
        [chunk |-> basicResults[i].chunk, similarity |-> SimScale \div 2,
         metadata |-> embeddings[CHOOSE j \in DOMAIN embeddings :
                         /\ embeddings[j].chunk = basicResults[i].chunk
                         /\ \A l \in DOMAIN embeddings :
                               embeddings[l].chunk = basicResults[i].chunk => j <= l].metadata]]

\* the executor: the try block and its catch block
Executor(retrieval, basic, embeddings) ==
    IF retrieval.kind = "returned"
    THEN ResolveWith(clearTimeout(Armed), retrieval.results)
    ELSE IF basic.kind = "returned"
    THEN ResolveWith(clearTimeout(Armed), FallbackResults(basic.results, embeddings))
    ELSE RejectWith(clearTimeout(Armed), <<"fallbackError">>)

\* the timer callback, which the event loop runs after timeoutMs when the
\* timer was not cleared
TimerCallback(call, timeoutMs) ==
    IF call.timer = "armed"
    THEN [RejectWith(call, TimeoutError(timeoutMs)) EXCEPT !.timer = "fired"]
    ELSE call

TimedCall(timeoutMs, duration, retrieval, call) ==
    [timeoutMs |-> timeoutMs, duration |-> duration, retrieval |-> retrieval,
     promise |-> call.promise, timer |-> call.timer, settles |-> call.settles]

\* findMostRelevantChunksWithTimeout(question, embeddings, {timeoutMs, topK});
\* duration is the time the retrieval took
findMostRelevantChunksWithTimeout(q, embeddings, k, option, duration, enhanced, config) ==
    LET timeoutMs == OrElse(option, DefaultTimeoutMs)
        retrieval == findMostRelevantChunksEnhanced(q, embeddings, k, 0, TRUE, "none",
                                                    enhanced, config)
        basic == findMostRelevantChunks(q, embeddings, k)
    IN  TimedCall(timeoutMs, duration, retrieval,
                  TimerCallback(Executor(retrieval, basic, embeddings), timeoutMs))

InitTimeout ==
    /\ timed = <<>>
    /\ NoPipeline
    /\ NoBuilder
    /\ NoCalculator
    /\ NoGenerator
    /\ NoValidation
    /\ NoLimits
    /\ NoDocs
    /\ NoChunked
    /\ NoOptimizer
    /\ NoManager
    /\ NoUpdate

\* await findMostRelevantChunksWithTimeout(question, embeddings, options)
FindWithTimeout ==
    /\ timed = <<>>
    /\ \E q \in Questions, embeddings \in SeqsUpTo(CandidatePool, MaxStored) :
       \E k \in TimedTopKs, option \in TimeoutChoices, duration \in 0..MaxDuration :
          timed' = findMostRelevantChunksWithTimeout(q, embeddings, k, option, duration,
                                                     FALSE, getDefaultEmbeddingConfig)
    /\ UNCHANGED timeFrame

NextTimeout == FindWithTimeout

SpecTimeout == InitTimeout /\ [][NextTimeout]_vars

\* C23: when the retrieval takes longer than timeoutMs the promise rejects
\* with 'Retrieval timeout after <timeoutMs>ms', otherwise it resolves with
\* the retrieval result; the promise is settled exactly once and the timer is
\* cleared when it settles.
C23_TimeoutEnforced ==
    timed # <<>>
    => /\ timed.duration > timed.timeoutMs
          => (timed.promise.state = "rejected"
              /\ timed.promise.value = TimeoutError(timed.timeoutMs))
       /\ (timed.duration <= timed.timeoutMs /\ timed.retrieval.kind = "returned")
          => (timed.promise.state = "resolved"
              /\ timed.promise.value = timed.retrieval.results)
       /\ timed.settles = 1
       /\ timed.timer # "armed"

---------------------------------------------------------------------------
(* The two chunkText functions on texts long enough to overflow a chunk.   *)
(* A text is put together from pieces: a run of 300 letters, a run of 520  *)
(* letters, a short word, a blank and the terminators.                     *)

MaxPieces == 3

Run(c, n) == [i \in 1..n |-> c]

Pieces == {Run("a", 300), Run("b", 520), <<"c">>, <<" ">>, <<".">>, <<"?">>}

\* the content of the test "should generate embeddings for simple text"
HelloWorld == <<"H", "e", "l", "l", "o", " ", "w", "o", "r", "l", "d", ".", " ", "T", "h", "i", "s", " ", "i", "s", " ", "a", " ", "t", "e", "s", "t", ".">>

HelloWorldChunk == <<"H", "e", "l", "l", "o", " ", "w", "o", "r", "l", "d", " ", "T", "h", "i", "s", " ", "i", "s", " ", "a", " ", "t", "e", "s", "t">>

ChunkedTexts == {Join(pieces, <<>>) : pieces \in SeqsUpTo(Pieces, MaxPieces)} \cup {HelloWorld}

Chunked(by, text, chunks) ==
    [by |-> by, text |-> text, sentences |-> SplitOn(text, Terminators), chunks |-> chunks]

InitChunk ==
    /\ chunked = <<>>
    /\ NoPipeline
    /\ NoBuilder
    /\ NoCalculator
    /\ NoGenerator
    /\ NoValidation
    /\ NoLimits
    /\ NoDocs
    /\ NoTimed
    /\ NoOptimizer
    /\ NoManager
    /\ NoUpdate

\* chunkText(text) of embeddings.ts
Chunk ==
    /\ chunked = <<>>
    /\ \E text \in ChunkedTexts : chunked' = Chunked("chunkText", text, chunkText(text))
    /\ UNCHANGED chunkFrame

\* EnhancedEmbeddingGenerator.chunkText(text)
ChunkEnhanced ==
    /\ chunked = <<>>
    /\ \E text \in ChunkedTexts :
          chunked' = Chunked("EnhancedEmbeddingGenerator.chunkText", text,
                             enhancedChunkText(text))
    /\ UNCHANGED chunkFrame

NextChunk == Chunk \/ ChunkEnhanced

SpecChunk == InitChunk /\ [][NextChunk]_vars

\* the chunks in order are the sentences in order, nothing lost or added
NoTextLost == Join(chunked.chunks, <<>>) = Join(chunked.sentences, <<>>)

\* a chunk longer than the maximum is one sentence
LongChunkIsOneSentence ==
    \A i \in DOMAIN chunked.chunks :
        Len(chunked.chunks[i]) > MAX_CHUNK_SIZE
        => \E k \in DOMAIN chunked.sentences : chunked.chunks[i] = chunked.sentences[k]

\* every chunk but the first starts where the sentence ahead of it no longer
\* fitted: with that sentence the chunk before it would exceed the maximum
Greedy ==
    \A i \in DOMAIN chunked.chunks :
        i > 1 => \E k \in DOMAIN chunked.sentences :
                    /\ Len(chunked.chunks[i - 1]) + Len(chunked.sentences[k]) > MAX_CHUNK_SIZE
                    /\ Len(chunked.sentences[k]) <= Len(chunked.chunks[i])
                    /\ SubSeq(chunked.chunks[i], 1, Len(chunked.sentences[k]))
                         = chunked.sentences[k]

\* C25: chunking is greedy over the sentences split at '.', '!' and '?'; the
\* chunks concatenated in order equal the sentences concatenated in order, a
\* chunk longer than the maximum (512) is a single sentence, and
\* 'Hello world. This is a test.' gives the one chunk
\* 'Hello world This is a test'.
C25_GreedyChunks ==
    chunked # <<>>
    => /\ NoTextLost
       /\ LongChunkIsOneSentence
       /\ Greedy
       /\ chunked.text = HelloWorld => chunked.chunks = <<HelloWorldChunk>>

\* the claim for the chunkText of embeddings.ts alone
LegacyGreedyChunks == (chunked # <<>> /\ chunked.by = "chunkText") => C25_GreedyChunks

---------------------------------------------------------------------------
(* config/optimizer.ts: getOptimalConfigForCorpus.  The exported configs   *)
(* of config/defaults.ts are objects; {...config} copies the top-level     *)
(* fields and shares the nested vocabularyOptions object, so a write       *)
(* through the copy's vocabularyOptions is a write to the exported one.    *)

MaxOptimizations == 2

TECHNICAL_EMBEDDING_CONFIG ==
    [enableTFIDF |-> TRUE, enableStemming |-> TRUE, enableStopwordRemoval |-> TRUE,
     ngramSizes |-> <<1, 2, 3>>, tfidfWeight |-> 2, language |-> "en",
     vocabularyOptions |->
        [present |-> TRUE, maxVocabularySize |-> 20000, minDocumentFrequency |-> 1,
         ngramSizes |-> <<1, 2, 3>>],
     tfidfOptions |-> [useLogTF |-> {FALSE}, useSmoothedIDF |-> {TRUE}]]

BALANCED_EMBEDDING_CONFIG ==
    [enableTFIDF |-> TRUE, enableStemming |-> FALSE, enableStopwordRemoval |-> TRUE,
     ngramSizes |-> <<1, 2>>, tfidfWeight |-> 1, language |-> "en",
     vocabularyOptions |->
        [present |-> TRUE, maxVocabularySize |-> 12000, minDocumentFrequency |-> 1,
         ngramSizes |-> <<1, 2>>],
     tfidfOptions |-> [useLogTF |-> {FALSE}, useSmoothedIDF |-> {TRUE}]]

ExportedNames == {"DEFAULT", "MINIMAL", "TECHNICAL", "BALANCED"}

\* the exported objects as the module defines them
ExportedConfigs ==
    [name \in ExportedNames |->
        CASE name = "DEFAULT" -> DEFAULT_EMBEDDING_CONFIG
          [] name = "MINIMAL" -> MINIMAL_EMBEDDING_CONFIG
          [] name = "TECHNICAL" -> TECHNICAL_EMBEDDING_CONFIG
          [] name = "BALANCED" -> BALANCED_EMBEDDING_CONFIG]

\* doc.toLowerCase().replace(/[^\w\s]/g, " ").split(/\s+/).filter(nonempty)
AnalysisWords(doc) ==
    LET lower == ToLowerCase(doc)
        ascii == Range(LowerChars) \cup Range(UpperChars) \cup Digits \cup {"_"}
    IN  NonEmpty(SplitWhitespace(<<>> \o [i \in 1..Len(lower) |->
            IF lower[i] \in ascii \cup Whitespace THEN lower[i] ELSE " "]))

\* the tests of analyzeCorpus on a word
IsTechnicalTerm(word) ==
    \/ Includes(word, <<"_">>)
    \/ \E k \in 1..(Len(word) - 1) :
          word[k] \in Range(LowerChars) /\ word[k + 1] \in Range(UpperChars)
    \/ Includes(word, <<".">>)
    \/ \E k \in 2..Len(word) :
          /\ word[k] \in Range(UpperChars)
          /\ \A j \in 1..(k - 1) : word[j] \in Range(LowerChars)
    \/ (Len(word) > 0 /\ \A k \in 1..Len(word) : word[k] \in Range(UpperChars) \cup {"_"})
    \/ (Len(word) > 0 /\ \A k \in 1..Len(word) : word[k] \in Digits)
    \/ Len(word) > 15

\* the place of the first backtick of doc at or after i; 0 when there is none
NextBacktick(doc, i) ==
    LET places == {k \in i..Len(doc) : doc[k] = Backtick}
    IN  IF places = {} THEN 0 ELSE CHOOSE k \in places : \A l \in places : k <= l

\* the place of the first closing fence at or after i; 0 when there is none
NextFence(doc, i) ==
    LET places == {k \in i..(Len(doc) - 2) :
                      doc[k] = Backtick /\ doc[k + 1] = Backtick /\ doc[k + 2] = Backtick}
    IN  IF places = {} THEN 0 ELSE CHOOSE k \in places : \A l \in places : k <= l

RECURSIVE CodeBlockMatches(_, _)
\* doc.match(/```[\s\S]*?```|`[^`]+`/g) from place i on: the number of matches
CodeBlockMatches(doc, i) ==
    LET start == NextBacktick(doc, i)
        fenced == start + 2 <= Len(doc) /\ doc[start + 1] = Backtick /\ doc[start + 2] = Backtick
        close == NextBacktick(doc, start + 1)
    IN  IF start = 0 THEN 0
        ELSE IF fenced /\ NextFence(doc, start + 3) # 0
        THEN 1 + CodeBlockMatches(doc, NextFence(doc, start + 3) + 3)
        ELSE IF close > start + 1 THEN 1 + CodeBlockMatches(doc, close + 1)
        ELSE CodeBlockMatches(doc, start + 1)

RECURSIVE SumOver(_, _)
SumOver(list, i) == IF i > Len(list) THEN 0 ELSE list[i] + SumOver(list, i + 1)

\* analyzeCorpus(documents): the counts its ratios are made of
analyzeCorpus(texts) ==
    LET words == <<>> \o [d \in 1..Len(texts) |-> AnalysisWords(texts[d])]
    IN  [documentCount |-> Len(texts),
         totalCharacters |-> SumOver(<<>> \o [d \in 1..Len(texts) |-> Len(texts[d])], 1),
         totalWords |-> SumOver(<<>> \o [d \in 1..Len(words) |-> Len(words[d])], 1),
         uniqueWords |-> Cardinality(UNION {Range(words[d]) : d \in 1..Len(words)}),
         technicalTerms |-> SumOver(<<>> \o [d \in 1..Len(words) |->
                               Cardinality({k \in 1..Len(words[d]) : IsTechnicalTerm(words[d][k])})], 1),
         codeBlocks |-> SumOver(<<>> \o [d \in 1..Len(texts) |->
                               CodeBlockMatches(texts[d], 1)], 1)]

\* technicalTermsRatio > tenths / 10
TechnicalAbove(analysis, tenths) ==
    analysis.totalWords > 0 /\ 10 * analysis.technicalTerms > tenths * analysis.totalWords

\* codeBlocksRatio > 0.2
CodeAbove(analysis) ==
    analysis.documentCount > 0 /\ 5 * analysis.codeBlocks > analysis.documentCount

\* vocabularyRatio > 0.7
Diverse(analysis) == 10 * analysis.uniqueWords > 7 * Max(analysis.totalWords, 1)

\* averageDocumentLength > 2000
LongDocuments(analysis) ==
    analysis.documentCount > 0 /\ analysis.totalCharacters > 2000 * analysis.documentCount

\* averageDocumentLength < 500
ShortDocuments(analysis) ==
    analysis.documentCount = 0 \/ analysis.totalCharacters < 500 * analysis.documentCount

\* the exported config the base config is copied from
BaseName(analysis) ==
    IF analysis.documentCount <= 1 THEN "MINIMAL"
    ELSE IF analysis.documentCount <= 5 THEN "BALANCED"
    ELSE IF TechnicalAbove(analysis, 3) \/ CodeAbove(analysis) THEN "TECHNICAL"
    ELSE "DEFAULT"

LargeCorpus(analysis) == BaseName(analysis) = "DEFAULT" /\ analysis.documentCount > 20

\* baseConfig: the top-level copy, with the two writes of the last branch
BaseConfig(analysis, exported) ==
    IF LargeCorpus(analysis)
    THEN [exported[BaseName(analysis)] EXCEPT !.tfidfWeight = 5, !.enableStopwordRemoval = TRUE]
    ELSE exported[BaseName(analysis)]

AdjustedWeight(weight, analysis) ==
    IF analysis.documentCount <= 3 THEN Min(weight, 1)
    ELSE IF analysis.documentCount <= 10 THEN Min(weight, 3)
    ELSE weight

AdjustedSizes(sizes, analysis) ==
    IF LongDocuments(analysis)
    THEN IF 3 \in Range(sizes) THEN sizes ELSE Append(sizes, 3)
    ELSE IF ShortDocuments(analysis)
    THEN FilterIdx(sizes, {i \in 1..Len(sizes) : sizes[i] <= 2})
    ELSE sizes

\* the writes to optimizedConfig.vocabularyOptions, the object the exported
\* config holds too
AdjustedOptions(options, sizes, analysis) ==
    [options EXCEPT
        !.maxVocabularySize = IF Diverse(analysis) THEN Min((3 * @) \div 2, 25000) ELSE @,
        !.ngramSizes = IF LongDocuments(analysis)
                       THEN IF 3 \in Range(sizes) THEN @ ELSE AdjustedSizes(sizes, analysis)
                       ELSE IF ShortDocuments(analysis) THEN AdjustedSizes(sizes, analysis)
                       ELSE @]

\* optimizedConfig before the user preferences
OptimizedFor(analysis, base) ==
    [base EXCEPT
        !.tfidfWeight = AdjustedWeight(@, analysis),
        !.enableStemming = IF TechnicalAbove(analysis, 4) THEN FALSE ELSE @,
        !.ngramSizes = AdjustedSizes(@, analysis),
        !.vocabularyOptions = AdjustedOptions(@, base.ngramSizes, analysis)]

\* Object.assign(optimizedConfig, userPreferences)
Assigned(config, userPreferences) ==
    [f \in DOMAIN config |->
        IF f \in DOMAIN userPreferences THEN userPreferences[f] ELSE config[f]]

\* the call: the config it returns and the exported objects after it
OptimalFor(analysis, userPreferences, exported) ==
    LET optimizedConfig == OptimizedFor(analysis, BaseConfig(analysis, exported))
    IN  [returned |-> Assigned(optimizedConfig, userPreferences),
         exported |-> [exported EXCEPT ![BaseName(analysis)].vocabularyOptions =
                                           optimizedConfig.vocabularyOptions]]

getOptimalConfigForCorpus(texts, userPreferences, exported) ==
    OptimalFor(analyzeCorpus(texts), userPreferences, exported)

\* one word twice, a 2001-letter word, and an inline code span
XX == <<"x", " ", "x">>

LongWord == Run("a", 2001)

CodeSpan == <<Backtick, "x", Backtick, " ", "y", " ", "z">>

OptimizerDocuments == {XY, XX, LongWord, CodeSpan}

\* the sizes of the corpora: none, one document, a small, a medium and a
\* large corpus
CorpusSizes == {0, 1, 2, 6, 21}

Corpus(text, n) == [d \in 1..n |-> text]

\* userPreferences: none, or a tfidfWeight of 0.5
PreferenceChoices == {<<>>, [f \in {"tfidfWeight"} |-> 5]}

InitOptimizer ==
    /\ exportedConfigs = ExportedConfigs
    /\ optimizations = <<>>
    /\ NoPipeline
    /\ NoBuilder
    /\ NoCalculator
    /\ NoGenerator
    /\ NoValidation
    /\ NoLimits
    /\ NoDocs
    /\ NoTimed
    /\ NoChunked
    /\ NoManager
    /\ NoUpdate

Optimization(text, n, userPreferences, returned) ==
    [text |-> text, count |-> n, userPreferences |-> userPreferences, returned |-> returned]

\* config = getOptimalConfigForCorpus(documents, userPreferences)
Optimize ==
    /\ Len(optimizations) < MaxOptimizations
    /\ \E text \in OptimizerDocuments, n \in CorpusSizes, userPreferences \in PreferenceChoices :
       \E call \in {getOptimalConfigForCorpus(Corpus(text, n), userPreferences, exportedConfigs)} :
          /\ exportedConfigs' = call.exported
          /\ optimizations' = Append(optimizations,
                                 Optimization(text, n, userPreferences, call.returned))
    /\ UNCHANGED optFrame

NextOptimizer == Optimize

SpecOptimizer == InitOptimizer /\ [][NextOptimizer]_vars

SameInput(a, b) ==
    a.text = b.text /\ a.count = b.count /\ a.userPreferences = b.userPreferences

\* C26: a call of getOptimalConfigForCorpus with the same documents and user
\* preferences as an earlier call returns an equal config, and no call
\* changes the exported DEFAULT_, MINIMAL_, TECHNICAL_ or
\* BALANCED_EMBEDDING_CONFIG, their vocabularyOptions included.
C26_PureOptimizer ==
    /\ \A i, j \in DOMAIN optimizations :
          SameInput(optimizations[i], optimizations[j])
          => optimizations[i].returned = optimizations[j].returned
    /\ exportedConfigs = ExportedConfigs

---------------------------------------------------------------------------
(* config/config-manager.ts: ConfigManager.  A config of the manager has   *)
(* the fields of an EmbeddingConfig and customStopwords, which is {} when  *)
(* undefined; a partial config has every field as an optional value.       *)

\* DEFAULT_EMBEDDING_CONFIG with its customStopwords: undefined
ManagerDefault ==
    [f \in DOMAIN DEFAULT_EMBEDDING_CONFIG \cup {"customStopwords"} |->
        IF f = "customStopwords" THEN {} ELSE DEFAULT_EMBEDDING_CONFIG[f]]

ConfigFields == DOMAIN ManagerDefault

CustomVocabularyOptions ==
    [present |-> TRUE, maxVocabularySize |-> 5000, minDocumentFrequency |-> 2,
     ngramSizes |-> <<1>>]

CustomTFIDFOptions == [useLogTF |-> {TRUE}, useSmoothedIDF |-> {FALSE}]

\* the partial configs updateConfig is called with
PartialUpdates ==
    [enableTFIDF : {{}},
     enableStemming : {{}},
     enableStopwordRemoval : {{}},
     ngramSizes : {{}, {<<3, 1, 3, 7>>}},
     tfidfWeight : {{}, {5}, {20}},
     language : {{}},
     vocabularyOptions : {{}, {CustomVocabularyOptions}},
     tfidfOptions : {{}, {CustomTFIDFOptions}},
     customStopwords : {{}, {<< <<" ", "T", "h", "e">> >>}}]

\* { ...this.currentConfig, ...partialConfig }, every field as an optional
Spread(current, partialConfig) ==
    [f \in ConfigFields |->
        IF partialConfig[f] # {} THEN partialConfig[f]
        ELSE IF f = "customStopwords" THEN current[f]
        ELSE {current[f]}]

\* config.customStopwords.map((word) => word.toLowerCase().trim())
SanitizedStopwords(optional) ==
    IF optional = {} THEN {}
    ELSE {<<>> \o [i \in 1..Len(Supplied(optional)) |->
                      Trim(ToLowerCase(Supplied(optional)[i]))]}

\* the six fields the model of validateEmbeddingConfig reads
ValidatedFields(config) ==
    [enableTFIDF |-> config.enableTFIDF, enableStemming |-> config.enableStemming,
     enableStopwordRemoval |-> config.enableStopwordRemoval,
     ngramSizes |-> config.ngramSizes, tfidfWeight |-> config.tfidfWeight,
     language |-> config.language]

\* validation.sanitizedConfig of a valid config: what validateEmbeddingConfig
\* copies into {...DEFAULT_EMBEDDING_CONFIG}, customStopwords included
SanitizedManagerConfig(config) ==
    [f \in ConfigFields |->
        IF f = "customStopwords" THEN SanitizedStopwords(config.customStopwords)
        ELSE SanitizedConfig(ValidatedFields(config))[f]]

\* updateConfig(partialConfig); saved is whether workspaceState.update
\* resolved.  The result: what it returned, currentConfig and the store after
UpdateResult(returned, current, store) ==
    [returned |-> returned, currentConfig |-> current, storedConfig |-> store]

updateConfig(current, store, partialConfig, saved) ==
    LET mergedConfig == Spread(current, partialConfig)
        result == validateEmbeddingConfig(ValidatedFields(mergedConfig))
    IN  IF ~result.isValid THEN UpdateResult(FALSE, current, store)
        ELSE IF ~saved THEN UpdateResult(FALSE, SanitizedManagerConfig(mergedConfig), store)
        ELSE UpdateResult(TRUE, SanitizedManagerConfig(mergedConfig),
                          {SanitizedManagerConfig(mergedConfig)})

\* getConfig(): { ...this.currentConfig }
getConfig == currentConfig

\* new ConfigManager(context) on an empty store
InitManager ==
    /\ currentConfig = ManagerDefault
    /\ storedConfig = {}
    /\ updated = <<>>
    /\ NoPipeline
    /\ NoBuilder
    /\ NoCalculator
    /\ NoGenerator
    /\ NoValidation
    /\ NoLimits
    /\ NoDocs
    /\ NoTimed
    /\ NoChunked
    /\ NoOptimizer
    /\ NoUpdate

\* ok = await configManager.updateConfig(partialConfig)
UpdateConfig ==
    /\ \E partialConfig \in PartialUpdates, saved \in BOOLEAN :
       \E result \in {updateConfig(currentConfig, storedConfig, partialConfig, saved)} :
          /\ currentConfig' = result.currentConfig
          /\ storedConfig' = result.storedConfig
          /\ updated' = [partialConfig |-> partialConfig, before |-> currentConfig,
                         returned |-> result.returned]
    /\ UNCHANGED mgrFrame

\* await configManager.resetToDefaults(); a failed save rejects
ResetToDefaults ==
    /\ \E saved \in BOOLEAN :
          /\ currentConfig' = ManagerDefault
          /\ storedConfig' = IF saved THEN {ManagerDefault} ELSE storedConfig
    /\ updated' = <<>>
    /\ UNCHANGED mgrFrame

NextManager == UpdateConfig \/ ResetToDefaults

SpecManager == InitManager /\ [][NextManager]_vars

\* C28: whenever updateConfig returns false, because the merged config is
\* invalid or because the save failed, getConfig() returns what it returned
\* before the call.
C28_FalseKeepsConfig ==
    (updated # <<>> /\ ~updated.returned) => getConfig = updated.before

\* the value updateConfig is to keep for a supplied field
SanitizedValue(f, optional) ==
    IF f = "ngramSizes" THEN SortedUnique(ValidNgrams(Supplied(optional)))
    ELSE IF f = "customStopwords" THEN SanitizedStopwords(optional)
    ELSE Supplied(optional)

\* C29: whenever updateConfig(p) returns true, getConfig() holds the supplied
\* (sanitised) value of every field present in p, vocabularyOptions,
\* tfidfOptions and customStopwords included, and every field not present in
\* p keeps the value it had before the call.
C29_TrueAppliesPartial ==
    (updated # <<>> /\ updated.returned)
    => \A f \in ConfigFields :
          IF updated.partialConfig[f] # {}
          THEN getConfig[f] = SanitizedValue(f, updated.partialConfig[f])
          ELSE getConfig[f] = updated.before[f]

---------------------------------------------------------------------------
(* vocabulary-builder.ts: VocabularyBuilder.updateVocabulary, the          *)
(* incremental build of a vocabulary.                                      *)

MaxUpdateDocuments == 2

\* the ProcessedText updateVocabulary makes for each document of the
\* existing vocabulary
Reconstructed(existingVocabulary) ==
    [words |-> <<>>, ngrams |-> existingVocabulary.terms, language |-> "en"]

updateVocabulary(builder, existingVocabulary, newProcessedTexts) ==
    buildVocabulary(builder,
        [i \in 1..existingVocabulary.totalDocuments |-> Reconstructed(existingVocabulary)]
            \o newProcessedTexts)

\* the documents of an incremental build
UpdateDocuments ==
    SeqsUpTo({AsProcessed(<<Api>>), AsProcessed(<<X>>), AsProcessed(<<X, Api>>)},
             MaxUpdateDocuments)

UpdateOptionChoices ==
    {NoVocabularyOptions}
    \cup {[present |-> TRUE, maxVocabularySize |-> size, minDocumentFrequency |-> frequency,
           ngramSizes |-> <<1>>] : size \in {0, 1}, frequency \in {1, 2}}

InitUpdate ==
    /\ incremental = <<>>
    /\ NoPipeline
    /\ NoBuilder
    /\ NoCalculator
    /\ NoGenerator
    /\ NoValidation
    /\ NoLimits
    /\ NoDocs
    /\ NoTimed
    /\ NoChunked
    /\ NoOptimizer
    /\ NoManager

\* existing = new VocabularyBuilder(options).buildVocabulary(old)
BuildExisting ==
    /\ incremental = <<>>
    /\ \E options \in UpdateOptionChoices, old \in UpdateDocuments :
          incremental' = [step |-> "built", builder |-> VocabularyBuilder(options),
                          old |-> old,
                          existing |-> buildVocabulary(VocabularyBuilder(options), old),
                          added |-> <<>>, vocabulary |-> createEmptyVocabulary]
    /\ UNCHANGED updFrame

\* vocabulary = builder.updateVocabulary(existing, added)
UpdateVocabulary ==
    /\ incremental # <<>>
    /\ incremental.step = "built"
    /\ \E added \in UpdateDocuments :
          incremental' = [incremental EXCEPT
                             !.step = "updated", !.added = added,
                             !.vocabulary = updateVocabulary(incremental.builder,
                                                             incremental.existing, added)]
    /\ UNCHANGED updFrame

NextUpdate == BuildExisting \/ UpdateVocabulary

SpecUpdate == InitUpdate /\ [][NextUpdate]_vars

\* C30: updateVocabulary(buildVocabulary(old), new) is the Vocabulary that
\* buildVocabulary(old followed by new) returns: the same terms in the same
\* order, the same document frequencies, the same totalDocuments.
C30_UpdateIsRebuild ==
    (incremental # <<>> /\ incremental.step = "updated")
    => incremental.vocabulary
          = buildVocabulary(incremental.builder, incremental.old \o incremental.added)

\* the part of C30 the code keeps: the updated vocabulary counts the
\* documents of the old and the new list
UpdateCountsDocuments ==
    (incremental # <<>> /\ incremental.step = "updated")
    => incremental.vocabulary.totalDocuments
          = Len(incremental.old) + Len(incremental.added)

===========================================================================
